---- MODULE Spec2Model ----
(***************************************************************************)
(* The simulation run manager of src/api/simulation.py (SimulationManager, *)
(* its run task _run_simulation, the control routes start / stop / reset,  *)
(* the subscriber registry with its per-connection watchdogs, and the      *)
(* status() reader that FastAPI runs on a worker thread).                  *)
(*                                                                         *)
(* Scheduling model.  Everything except status() runs on one asyncio event *)
(* loop: a coroutine runs without interruption from one suspension point   *)
(* (an await that really waits) to the next, so every action below is the  *)
(* code between two suspension points.  Suspension points of the source:   *)
(* Lock.acquire on a held lock, await self._task, asyncio.sleep, and the   *)
(* transport calls send_json / close / receive_text.  Task.cancel() only   *)
(* marks the task; the CancelledError is raised inside the task when it is *)
(* next resumed.  CancelledError is a BaseException, so neither            *)
(* "except Exception" nor suppress(Exception) catches it.                  *)
(*                                                                         *)
(* Time.  The clock advances in ticks of TickSeconds.  A watchdog timer    *)
(* fires at its deadline and a watchdog's close completes before the clock *)
(* advances again; sends and listener reads may take any amount of time.   *)
(***************************************************************************)
EXTENDS Integers, Sequences, FiniteSets, TLC

\* ---- bounds of the model ----
\* The environment is explored in scenarios, each bounding the number of
\* start calls (runs), of control calls, of websockets, of steps per run, of
\* status() calls, and the time the clock may reach.
\* Lifecycle: overlapping start / stop / reset calls, no subscriber.
LifeRuns == 2
LifeCalls == 3
LifeSteps == 2
LifeStatus == 1
\* Restart: a run with a subscriber is superseded or stopped.
RestartRuns == 2
RestartCalls == 2
RestartConns == 1
RestartSteps == 2
\* Fanout: one run broadcasting to several subscribers.
FanoutCalls == 1
FanoutConns == 2
FanoutSteps == 1
FanoutTime == 5
\* Idle: a subscriber left idle until its watchdog reaps it.
IdleCalls == 1
IdleConns == 1
IdleSteps == 1
IdleTime == 40
\* Reject: the store's region table is emptied while the manager is in use
\* ("wipe").
RejectCalls == 2
RejectConns == 1
RejectSteps == 1

\* SimulationRequest, reduced to the fields that decide the length of a run:
\* continuous, step_minutes, and duration_hours counted in minutes
\* (duration_minutes = 60 * duration_hours), NoDuration standing for None.
NoDuration == 0
\* The requests of the scenarios above: the default (continuous) request and
\* a bounded one of a single step.
ShortRequests ==
    { [continuous |-> TRUE, step_minutes |-> 30, duration_minutes |-> NoDuration],
      [continuous |-> FALSE, step_minutes |-> 30, duration_minutes |-> 30] }
\* Bounded: one run of a request with continuous = false whose duration is
\* a fraction or a multiple of its step, or is absent.
BoundedCalls == 2
BoundedConns == 1
BoundedSteps == 3
BoundedRequests ==
    { [continuous |-> FALSE, step_minutes |-> 30, duration_minutes |-> 10],
      [continuous |-> FALSE, step_minutes |-> 30, duration_minutes |-> 45],
      [continuous |-> FALSE, step_minutes |-> 20, duration_minutes |-> 60],
      [continuous |-> FALSE, step_minutes |-> 30, duration_minutes |-> NoDuration] }
Requests == ShortRequests \cup BoundedRequests

Scenarios ==
    { [name |-> "lifecycle", runs |-> LifeRuns, calls |-> LifeCalls, conns |-> 0,
       steps |-> LifeSteps, status |-> LifeStatus, time |-> 0, wipe |-> FALSE, requests |-> ShortRequests],
      [name |-> "restart", runs |-> RestartRuns, calls |-> RestartCalls, conns |-> RestartConns,
       steps |-> RestartSteps, status |-> 0, time |-> 0, wipe |-> FALSE, requests |-> ShortRequests],
      [name |-> "fanout", runs |-> 1, calls |-> FanoutCalls, conns |-> FanoutConns,
       steps |-> FanoutSteps, status |-> 0, time |-> FanoutTime, wipe |-> FALSE, requests |-> ShortRequests],
      [name |-> "idle", runs |-> 1, calls |-> IdleCalls, conns |-> IdleConns,
       steps |-> IdleSteps, status |-> 0, time |-> IdleTime, wipe |-> FALSE, requests |-> ShortRequests],
      [name |-> "reject", runs |-> 1, calls |-> RejectCalls, conns |-> RejectConns,
       steps |-> RejectSteps, status |-> 0, time |-> 0, wipe |-> TRUE, requests |-> ShortRequests],
      [name |-> "bounded", runs |-> 1, calls |-> BoundedCalls, conns |-> BoundedConns,
       steps |-> BoundedSteps, status |-> 0, time |-> 0, wipe |-> FALSE,
       requests |-> BoundedRequests] }

Largest(S) == CHOOSE x \in S : \A y \in S : y <= x
MaxRuns == Largest({sc.runs : sc \in Scenarios})
MaxCalls == Largest({sc.calls : sc \in Scenarios})
MaxConns == Largest({sc.conns : sc \in Scenarios})

\* ---- program constants ----
StaleTimeout == 30
WatchdogInterval == 5
\* The unit of time of the model is the watchdog interval.
TickSeconds == WatchdogInterval

RunIds == 1..MaxRuns
CallIds == 1..MaxCalls
ConnIds == 1..MaxConns

NoRun == 0
NoCall == 0
NoConn == 0
NoTime == -1

\* A payload is identified by the run that built it and its "iteration".
NoPayload == [run |-> 0, iteration |-> 0]

\* No request: current_request is None
NoRequest == [continuous |-> FALSE, step_minutes |-> 0, duration_minutes |-> -1]

SIMULATION_STOPPED == "simulation stopped"
SEND_FAILURE == "send failure"
STALE_CONNECTION == "stale connection"

\* HQ_REGION_CODE, and the code of an organic region
HQ == "hq"
Other == "ashburn"
NoRegion == "-"

\* The tables one step of _run_simulation writes.
StepTables == {"region", "region_stats", "simulation_state", "simulation_region", "telemetry"}

VARIABLES
    scn,        \* the scenario: the bounds of this behaviour's environment
    m,          \* the SimulationManager's fields
    lock,       \* self._lock (asyncio.Lock): holder and FIFO waiters
    runs,       \* the tasks created by start(): _run_simulation coroutines
    nruns,      \* number of run tasks created so far
    calls,      \* invocations of the control routes start / stop / reset
    conns,      \* the websockets: transport state and register() coroutine
    nconns,     \* number of websockets accepted so far
    wd,         \* the watchdog tasks, one per registered websocket
    now,        \* the clock (time.time()), in seconds
    db,         \* the durable content of the store
    regions,    \* the codes of the rows of the store's region table
    econ,       \* the economy in numbers: world state, capacities, last step
    iter,       \* one region's turn of the loop of an iteration, in numbers
    tele,       \* the telemetry table and what GET /simulate/telemetry returned
    st,         \* the status() call running on a worker thread
    hist        \* history: what subscribers received, what runs committed

vars == <<scn, m, lock, runs, nruns, calls, conns, nconns, wd, now, db, regions, econ, iter, tele,
          st, hist>>

\* The variables of the manager, its tasks and its subscribers
control_vars == <<scn, m, lock, runs, nruns, calls, conns, nconns, wd, now, db, regions, st, hist>>

----------------------------------------------------------------------------
\* SimulationManager.__init__
ManagerInit ==
    [ task |-> NoRun,
      clients |-> {},
      last_heartbeat |-> [c \in {} |-> 0],
      watchdogs |-> {},
      latest_payload |-> NoPayload,
      current_request |-> NoRequest,
      current_iteration |-> 0,
      messages_sent |-> 0,
      disconnects |-> 0,
      last_broadcast_at |-> NoTime,
      finance_snapshot |-> NoPayload ]

\* History of a run's latest broadcast() call: the snapshot it took, the
\* connections whose send failed, and the disconnect counter and the removed
\* connections when it began.
NoBroadcast == [snapshot |-> {}, failed |-> {}, disconnects |-> 0, removed |-> {}, complete |-> FALSE]

\* asyncio.Task.done()
TaskDone(r) == runs[r].pc = "done"

\* SimulationManager.is_running
is_running == m.task # NoRun /\ ~TaskDone(m.task)

\* SimulationManager._add_connection
add_connection(mgr, ws, t) ==
    [mgr EXCEPT !.clients = @ \cup {ws},
                !.last_heartbeat = [c \in DOMAIN @ \cup {ws} |-> IF c = ws THEN t ELSE @[c]],
                !.watchdogs = @ \cup {ws}]

\* SimulationManager.update_heartbeat
update_heartbeat_unguarded(mgr, ws, t) ==
    [mgr EXCEPT !.last_heartbeat = [c \in DOMAIN @ \cup {ws} |-> IF c = ws THEN t ELSE @[c]]]

update_heartbeat(mgr, ws, t) ==
    IF ws \in mgr.clients
    THEN [mgr EXCEPT !.last_heartbeat = [c \in DOMAIN @ |-> IF c = ws THEN t ELSE @[c]]]
    ELSE mgr

\* SimulationManager._cleanup_connection: the registry part
cleanup_removed(mgr, ws) == ws \in mgr.clients \/ ws \in DOMAIN mgr.last_heartbeat

cleanup_connection_counts_every_call(mgr, ws) ==
    [mgr EXCEPT !.clients = @ \ {ws},
                !.last_heartbeat = [c \in DOMAIN @ \ {ws} |-> @[c]],
                !.watchdogs = @ \ {ws},
                !.disconnects = @ + 1]

cleanup_connection(mgr, ws) ==
    [mgr EXCEPT !.clients = @ \ {ws},
                !.last_heartbeat = [c \in DOMAIN @ \ {ws} |-> @[c]],
                !.watchdogs = @ \ {ws},
                !.disconnects = IF cleanup_removed(mgr, ws) THEN @ + 1 ELSE @]

\* SimulationManager._cleanup_connection: the task.cancel() of the popped
\* watchdog, skipped when the caller is that watchdog itself
cleanup_cancel_skipped(mgr, w, ws, self_wd) == w

cleanup_cancel(mgr, w, ws, self_wd) ==
    [c \in ConnIds |->
        IF c = ws /\ ws \in mgr.watchdogs /\ w[c].pc # "done" /\ self_wd # ws
        THEN [w[c] EXCEPT !.cancel = TRUE]
        ELSE w[c]]

\* WebSocket.close(code, reason): closes an open transport (the peer observes
\* the reason); on a transport that is no longer open it raises, and every
\* caller suppresses that.
ws_close(cs, ws, reason) ==
    IF cs[ws].state = "open"
    THEN [cs EXCEPT ![ws].state = "closed", ![ws].close_reason = reason]
    ELSE cs

----------------------------------------------------------------------------
\* The economy in numbers.  The simulation_state row of a store that was
\* reset (dao.reset_simulation_data), and the record of "no step yet".
WorldZero ==
    [capital_cents |-> 0, total_revenue_cents |-> 0, total_cost_cents |-> 0,
     total_spent_cents |-> 0]

\* The simulation_region table: a capacity per region, NoCapacity for a region
\* without a row
NoCapacity == -1

NoCapacities == [g \in {HQ, Other} |-> NoCapacity]

NoDraws == [g \in {HQ, Other} |-> [revenue_cents |-> 0, cost_cents |-> 0]]

NoEconRequest == [quarters |-> 0, gpu_cost |-> 0]

NoStep ==
    [prior |-> WorldZero, capacities |-> NoCapacities, draws |-> NoDraws,
     request |-> NoEconRequest, new_gpus |-> 0, spent_capex |-> 0]

\* No task is running: the store holds "world" and no capacity row
EconIdle(world) ==
    [running |-> FALSE, request |-> NoEconRequest, state |-> WorldZero,
     world |-> world, capacity |-> NoCapacities, last |-> NoStep, steps |-> 0]

\* No region has had its turn in the loop of an iteration
NoIteration ==
    [region |-> NoRegion, capacity |-> 0, raw |-> 0, utilization |-> 0, used_gpus |-> 0,
     free_gpus |-> 0, util_percent |-> 0, status |-> "none"]

\* A timestamp: minutes, and the microseconds within the minute
Epoch == [minute |-> 0, microsecond |-> 0]
\* GET /simulate/telemetry has not been called
NoLimit == -1
NoQuery == [limit |-> NoLimit, stored |-> {}, points |-> <<>>]
\* The telemetry table is empty and has not been queried
NoTelemetry ==
    [simulated_time |-> [g \in {HQ, Other} |-> Epoch], rows |-> {}, steps |-> 0,
     query |-> NoQuery]

----------------------------------------------------------------------------
\* The manager after construction, no call made and no websocket accepted
ProgramInit ==
    /\ m = ManagerInit
    /\ lock = [holder |-> NoCall, waiters |-> <<>>]
    /\ runs = [r \in RunIds |->
                 [pc |-> "absent", cancel |-> FALSE, request |-> NoRequest,
                  step_index |-> 0, clients |-> {}, cur |-> NoConn, sent |-> FALSE,
                  payload |-> NoPayload, outcome |-> "none", bc |-> NoBroadcast]]
    /\ nruns = 0
    /\ calls = [k \in CallIds |->
                 [op |-> "none", pc |-> "idle", request |-> NoRequest,
                  clients |-> {}, cur |-> NoConn, target |-> NoRun]]
    /\ conns = [c \in ConnIds |->
                 [state |-> "new", close_reason |-> "none", pc |-> "new",
                  catchup |-> NoPayload, reg_run |-> NoRun]]
    /\ nconns = 0
    /\ wd = [c \in ConnIds |-> [pc |-> "none", wake |-> NoTime, cancel |-> FALSE]]
    /\ now = 0
    /\ db = [t \in StepTables |-> <<>>]
    /\ regions = {HQ, Other}
    /\ st = [pc |-> "idle", snap |-> ManagerInit, running |-> FALSE, at |-> NoTime,
             calls |-> 0, held |-> NoCall]
    /\ hist = [received |-> [c \in ConnIds |-> NoPayload],
               commits |-> [r \in RunIds |-> 0],
               pushed |-> [r \in RunIds |-> 0],
               retired |-> {},
               invoked |-> [k \in CallIds |-> 0]]

Init ==
    /\ scn \in Scenarios
    /\ ProgramInit
    /\ iter = NoIteration
    /\ tele = NoTelemetry
    /\ econ = EconIdle(WorldZero)

----------------------------------------------------------------------------
\* The store.  A SQLAlchemy session (autocommit=False) buffers the statements
\* executed since the last commit; commit() makes them durable together and
\* close() rolls back what is not committed.
Write(table, r, i, region) == [table |-> table, run |-> r, step |-> i, region |-> region]

Session(d) == [durable |-> d, tx |-> <<>>]

\* Session.execute
execute(s, w) == [s EXCEPT !.tx = Append(@, w)]

\* Session.commit
commit(s) ==
    [durable |-> [t \in StepTables |->
                    s.durable[t] \o SelectSeq(s.tx, LAMBDA w : w.table = t)],
     tx |-> <<>>]

\* Session.close: the uncommitted statements are rolled back
close(s) == s.durable

\* dao.update_region_financials
update_region_financials(s, w) == execute(s, w)

\* the INSERT INTO region_stats of _run_simulation
insert_region_stats(s, w) == execute(s, w)

\* dao.update_simulation_state
update_simulation_state_commits(s, w) == commit(execute(s, w))

update_simulation_state(s, w) == execute(s, w)

\* dao.upsert_region_capacity
upsert_region_capacity(s, w) == execute(s, w)

\* dao.record_telemetry
record_telemetry(s, w) == execute(s, w)

\* dao.reset_simulation_data
reset_simulation_data(d) == [t \in StepTables |-> <<>>]

\* get_region_capacities, as read by lines 290 and 307: the region has no
\* capacity row yet
capacity_missing(d, region) ==
    \A i \in 1..Len(d["simulation_region"]) : d["simulation_region"][i].region # region

\* The statements of one loop iteration of _run_simulation, in program order,
\* for the regions HQ (the expansion bucket) and Other: the default capacity
\* of a region that has none, per region its financials and its region_stats
\* row, then the world state, then (when GPUs were bought) the expansion
\* bucket's capacity, then one telemetry row per region.
StepStatements(d, r, i, new_gpus) ==
    (IF capacity_missing(d, HQ) THEN <<Write("simulation_region", r, i, HQ)>> ELSE <<>>)
    \o <<Write("region", r, i, HQ), Write("region_stats", r, i, HQ)>>
    \o (IF capacity_missing(d, Other) THEN <<Write("simulation_region", r, i, Other)>> ELSE <<>>)
    \o <<Write("region", r, i, Other), Write("region_stats", r, i, Other),
         Write("simulation_state", r, i, NoRegion)>>
    \o (IF new_gpus THEN <<Write("simulation_region", r, i, HQ)>> ELSE <<>>)
    \o <<Write("telemetry", r, i, HQ), Write("telemetry", r, i, Other)>>

Statement(s, w) ==
    CASE w.table = "region" -> update_region_financials(s, w)
      [] w.table = "region_stats" -> insert_region_stats(s, w)
      [] w.table = "simulation_state" -> update_simulation_state(s, w)
      [] w.table = "simulation_region" -> upsert_region_capacity(s, w)
      [] w.table = "telemetry" -> record_telemetry(s, w)

RECURSIVE RunStatements(_, _, _)
RunStatements(s, ws, n) ==
    IF n = 0 \/ ws = <<>> THEN s
    ELSE RunStatements(Statement(s, Head(ws)), Tail(ws), n - 1)

----------------------------------------------------------------------------
\* The part of the state the event loop's coroutines change, as one record, so
\* that the code between two suspension points is a function on it.
Cur ==
    [m |-> m, lock |-> lock, runs |-> runs, nruns |-> nruns, calls |-> calls,
     conns |-> conns, wd |-> wd, db |-> db, hist |-> hist]

Apply(S) ==
    /\ m' = S.m
    /\ lock' = S.lock
    /\ runs' = S.runs
    /\ nruns' = S.nruns
    /\ calls' = S.calls
    /\ conns' = S.conns
    /\ wd' = S.wd
    /\ db' = S.db
    /\ hist' = S.hist

\* The next element of an iteration over a snapshot list(self._clients), whose
\* order is the set's: NoConn when the iteration is over.
Pick_nothing(set, c) == c = NoConn

Pick(set, c) == IF set = {} THEN c = NoConn ELSE c \in set

\* WebSocket.send_json returned: the peer has the payload
deliver(S, ws, payload) == [S EXCEPT !.hist.received[ws] = payload]

\* _cleanup_connection(websocket, reason) called by a coroutine other than the
\* websocket's watchdog
cleanup(S, ws) ==
    [S EXCEPT !.m = cleanup_connection(S.m, ws),
              !.wd = cleanup_cancel(S.m, S.wd, ws, NoConn)]

----------------------------------------------------------------------------
\* The control routes: start (trigger_simulation), stop (stop_simulation) and
\* reset (reset_simulation), each one call of manager.start / manager.stop
\* under "async with self._lock".

\* asyncio.Task.cancel
cancel_task(S, r) == [S EXCEPT !.runs[r].cancel = TRUE]

\* asyncio.Lock.release: the first waiter is woken and no later acquire can
\* overtake it
release(S) ==
    IF S.lock.waiters = <<>>
    THEN [S EXCEPT !.lock.holder = NoCall]
    ELSE [S EXCEPT !.lock = [holder |-> Head(@.waiters), waiters |-> Tail(@.waiters)],
                   !.calls[Head(S.lock.waiters)].pc = "granted"]

\* SimulationManager.start, lines 84-90: the code after _stop_locked
start_body(S, k) ==
    LET r == S.nruns + 1
        req == S.calls[k].request
    IN [S EXCEPT !.m = [@ EXCEPT !.current_request = req,
                                 !.current_iteration = 0,
                                 !.messages_sent = 0,
                                 !.disconnects = 0,
                                 !.latest_payload = NoPayload,
                                 !.finance_snapshot = NoPayload,
                                 !.task = r],
                 !.runs[r] = [@ EXCEPT !.pc = "ready", !.request = req],
                 !.nruns = r]

\* The end of a control route: the rest of start(), the release of the lock,
\* and for reset the zeroing of the store, all without a suspension point.
call_return_without_zeroing(S, k) ==
    LET S1 == IF S.calls[k].op = "start" THEN start_body(S, k) ELSE S
        S2 == release(S1)
    IN [S2 EXCEPT !.calls[k] = [op |-> "none", pc |-> "done", request |-> NoRequest,
                                clients |-> {}, cur |-> NoConn, target |-> NoRun],
                  !.hist.retired = @ \cup ({S.calls[k].target} \ {NoRun}),
                  !.hist.invoked[k] = 0]

call_return(S, k) ==
    LET S1 == IF S.calls[k].op = "start" THEN start_body(S, k) ELSE S
        S2 == release(S1)
        S3 == IF S.calls[k].op = "reset"
              THEN [S2 EXCEPT !.db = reset_simulation_data(@)]
              ELSE S2
    IN [S3 EXCEPT !.calls[k] = [op |-> "none", pc |-> "done", request |-> NoRequest,
                                clients |-> {}, cur |-> NoConn, target |-> NoRun],
                  !.hist.retired = @ \cup ({S.calls[k].target} \ {NoRun}),
                  !.hist.invoked[k] = 0]

\* SimulationManager._close_all_clients: one turn of its loop, up to the
\* await of ws.close
close_next(S, k, c) ==
    IF c = NoConn
    THEN call_return(S, k)
    ELSE [S EXCEPT !.conns = ws_close(@, c, SIMULATION_STOPPED),
                   !.calls[k].pc = "closing",
                   !.calls[k].cur = c,
                   !.calls[k].clients = @ \ {c}]

\* SimulationManager._close_all_clients: the snapshot and the first turn
close_all_clients_skipped(S, k, c) == call_return(S, k)

close_all_clients(S, k, c) ==
    close_next([S EXCEPT !.calls[k].clients = S.m.clients], k, c)

\* SimulationManager._stop_locked, lines 101-103: after the task has exited
stop_locked_tail(S, k, c) ==
    close_all_clients(
        [S EXCEPT !.m.task = NoRun, !.m.current_request = NoRequest], k, c)

\* SimulationManager._stop_locked, lines 97-100
stop_locked_no_await(S, k, c) ==
    LET r == S.m.task
        S1 == [S EXCEPT !.calls[k].target = r]
    IN IF r # NoRun /\ S.runs[r].pc # "done"
       THEN stop_locked_tail(cancel_task(S1, r), k, c)
       ELSE stop_locked_tail(S1, k, c)

stop_locked_no_cancel(S, k, c) ==
    stop_locked_tail([S EXCEPT !.calls[k].target = S.m.task], k, c)

stop_locked_only_if_running(S, k, c) ==
    LET r == S.m.task
        S1 == [S EXCEPT !.calls[k].target = r]
    IN IF r # NoRun /\ S.runs[r].pc # "done"
       THEN [cancel_task(S1, r) EXCEPT !.calls[k].pc = "await_task"]
       ELSE call_return(S1, k)

stop_locked(S, k, c) ==
    LET r == S.m.task
        S1 == [S EXCEPT !.calls[k].target = r]
    IN IF r # NoRun /\ S.runs[r].pc # "done"
       THEN [cancel_task(S1, r) EXCEPT !.calls[k].pc = "await_task"]
       ELSE stop_locked_tail(S1, k, c)

\* "async with self._lock" of start() and stop(): asyncio.Lock.acquire, and
\* _stop_locked at once when the lock is free
acquire(S, k, c) ==
    IF S.lock.holder = NoCall /\ S.lock.waiters = <<>>
    THEN stop_locked([S EXCEPT !.lock.holder = k], k, c)
    ELSE [S EXCEPT !.lock.waiters = Append(@, k), !.calls[k].pc = "wait_lock"]

\* trigger_simulation: the request is rejected (HTTP 400) when the store has
\* no region, before manager.start is called
trigger_simulation_unchecked(S, k, c, rs) == acquire(S, k, c)

trigger_simulation(S, k, c, rs) ==
    IF rs = {}
    THEN [S EXCEPT !.calls[k] = [op |-> "none", pc |-> "rejected", request |-> NoRequest,
                                 clients |-> {}, cur |-> NoConn, target |-> NoRun]]
    ELSE acquire(S, k, c)

\* The start calls that have been accepted and have not returned
PendingStarts == {j \in CallIds : calls[j].op = "start" /\ calls[j].pc \notin {"done", "rejected"}}

\* A control route is invoked.  Calls are numbered in the order they arrive.
Invoke(k, op, req) ==
    /\ calls[k].pc = "idle"
    /\ k <= scn.calls
    /\ \A j \in CallIds : j < k => calls[j].pc # "idle"
    /\ (op = "start" /\ regions # {}) => nruns + Cardinality(PendingStarts) < scn.runs
    /\ op = "start" => req \in scn.requests
    /\ \E c \in ConnIds \cup {NoConn} :
         /\ Pick(m.clients, c)
         /\ IF op = "start"
            THEN Apply(trigger_simulation(
                         [Cur EXCEPT !.calls[k].op = op,
                                     !.calls[k].request = req,
                                     !.hist.invoked[k] = IF regions # {} THEN nconns ELSE 0],
                         k, c, regions))
            ELSE Apply(acquire([Cur EXCEPT !.calls[k].op = op], k, c))
    /\ UNCHANGED <<scn, regions, econ, iter, tele, nconns, now, st>>

\* A call that waited for the lifecycle lock gets it.
CallGranted(k) ==
    /\ calls[k].pc = "granted"
    /\ \E c \in ConnIds \cup {NoConn} :
         /\ Pick(m.clients, c)
         /\ Apply(stop_locked(Cur, k, c))
    /\ UNCHANGED <<scn, regions, econ, iter, tele, nconns, now, st>>

\* "await self._task" returns: the cancelled run task has exited.
CallTaskExited(k) ==
    /\ calls[k].pc = "await_task"
    /\ TaskDone(calls[k].target)
    /\ \E c \in ConnIds \cup {NoConn} :
         /\ Pick(m.clients, c)
         /\ Apply(stop_locked_tail(Cur, k, c))
    /\ UNCHANGED <<scn, regions, econ, iter, tele, nconns, now, st>>

\* _close_all_clients: "await ws.close" returns, the connection is cleaned up
\* and the loop goes on.
CallCloseDone(k) ==
    /\ calls[k].pc = "closing"
    /\ \E c \in ConnIds \cup {NoConn} :
         /\ Pick(calls[k].clients, c)
         /\ Apply(close_next(cleanup(Cur, calls[k].cur), k, c))
    /\ UNCHANGED <<scn, regions, econ, iter, tele, nconns, now, st>>

----------------------------------------------------------------------------
\* The run task: SimulationManager._run_simulation and the broadcast() it
\* awaits.

Max(a, b) == IF a >= b THEN a ELSE b

\* math.ceil(a / b) for positive a and b
ceil_div(a, b) == IF a % b = 0 THEN a \div b ELSE (a \div b) + 1

\* _run_simulation, lines 270-274: max_steps, 0 standing for None.
\* duration_hours / step_hours = duration_minutes / step_minutes.
max_steps_floor(req) ==
    IF ~req.continuous /\ req.duration_minutes # NoDuration
    THEN Max(1, req.duration_minutes \div req.step_minutes)
    ELSE 0

max_steps(req) ==
    IF ~req.continuous /\ req.duration_minutes # NoDuration
    THEN Max(1, ceil_div(req.duration_minutes, req.step_minutes))
    ELSE 0

\* SimulationManager.broadcast, lines 128-137: the state-lock section
broadcast_locked_uncounted(mgr, payload, t) ==
    [mgr EXCEPT !.latest_payload = payload,
                !.last_broadcast_at = t,
                !.current_iteration = payload.iteration,
                !.finance_snapshot = payload]

broadcast_locked(mgr, payload, t) ==
    [mgr EXCEPT !.latest_payload = payload,
                !.last_broadcast_at = t,
                !.current_iteration = payload.iteration,
                !.finance_snapshot = payload,
                !.messages_sent = @ + 1]

\* _run_simulation, lines 502-505 and 508-509: after broadcast() has returned
after_broadcast(S, r) ==
    LET n == S.runs[r].step_index + 1
        ms == max_steps(S.runs[r].request)
    IN IF ms # 0 /\ n >= ms
       THEN [S EXCEPT !.runs[r] = [@ EXCEPT !.step_index = n, !.pc = "done",
                                            !.outcome = "completed", !.cur = NoConn,
                                            !.sent = FALSE, !.request = NoRequest,
                                            !.bc.complete = TRUE]]
       ELSE [S EXCEPT !.runs[r] = [@ EXCEPT !.step_index = n, !.pc = "sleep",
                                            !.cur = NoConn, !.sent = FALSE,
                                            !.bc.complete = TRUE]]

\* SimulationManager.broadcast, lines 139-141: the next turn of the send loop,
\* up to the await of send_json
send_next(S, r, c) ==
    IF c = NoConn
    THEN after_broadcast(S, r)
    ELSE [S EXCEPT !.runs[r].pc = "sending",
                   !.runs[r].cur = c,
                   !.runs[r].sent = FALSE,
                   !.runs[r].clients = @ \ {c}]

\* The connections that have left the registry
Removed(S) == {c \in ConnIds : S.conns[c].pc # "new"} \ S.m.clients

BroadcastBegins(S, snapshot) ==
    [snapshot |-> snapshot, failed |-> {}, disconnects |-> S.m.disconnects,
     removed |-> Removed(S), complete |-> FALSE]

\* _run_simulation, lines 283-501: one iteration whose statements and commit
\* succeed, then broadcast() up to its first await
step_without_commit(S, r, new_gpus, c, t) ==
    LET i == S.runs[r].step_index + 1
        payload == [run |-> r, iteration |-> i]
        snapshot == S.m.clients
    IN send_next([S EXCEPT !.m = broadcast_locked(@, payload, t),
                           !.runs[r].payload = payload,
                           !.runs[r].clients = snapshot,
                           !.runs[r].bc = BroadcastBegins(S, snapshot)],
                 r, c)

step(S, r, new_gpus, c, t) ==
    LET i == S.runs[r].step_index + 1
        ws == StepStatements(S.db, r, i, new_gpus)
        s == commit(RunStatements(Session(S.db), ws, Len(ws)))
        payload == [run |-> r, iteration |-> i]
        snapshot == S.m.clients
    IN send_next([S EXCEPT !.db = close(s),
                           !.hist.commits[r] = @ + 1,
                           !.m = broadcast_locked(@, payload, t),
                           !.runs[r].payload = payload,
                           !.runs[r].clients = snapshot,
                           !.runs[r].bc = BroadcastBegins(S, snapshot)],
                 r, c)

\* _run_simulation, lines 283-499 and 508-509: an iteration in which the
\* statement after the first n ones raises (or, with n the number of
\* statements, the commit does); the finally clause closes the session.
step_fails_and_retries(S, r, new_gpus, n) ==
    LET i == S.runs[r].step_index + 1
        ws == StepStatements(S.db, r, i, new_gpus)
    IN [S EXCEPT !.db = close(RunStatements(Session(S.db), ws, n)),
                 !.runs[r].outcome = "failed"]

step_fails(S, r, new_gpus, n) ==
    LET i == S.runs[r].step_index + 1
        ws == StepStatements(S.db, r, i, new_gpus)
    IN [S EXCEPT !.db = close(RunStatements(Session(S.db), ws, n)),
                 !.runs[r] = [@ EXCEPT !.pc = "done", !.outcome = "failed",
                                       !.request = NoRequest]]

\* The task is resumed (first start, or the per-step sleep is over) and runs
\* one iteration.
RunStep(r) ==
    /\ runs[r].pc \in {"ready", "sleep"}
    /\ ~runs[r].cancel
    /\ runs[r].step_index < scn.steps
    /\ regions # {}
    /\ \E new_gpus \in BOOLEAN, c \in ConnIds \cup {NoConn} :
         /\ Pick(m.clients, c)
         /\ Apply(step(Cur, r, new_gpus, c, now))
    /\ UNCHANGED <<scn, regions, econ, iter, tele, nconns, now, st>>

\* The task is resumed and a store operation of the iteration fails, or the
\* iteration finds no region and raises (lines 283-285).
RunStepFails(r) ==
    /\ runs[r].pc \in {"ready", "sleep"}
    /\ ~runs[r].cancel
    /\ runs[r].step_index < scn.steps
    /\ \E new_gpus \in BOOLEAN :
         \E n \in 0..Len(StepStatements(db, r, runs[r].step_index + 1, new_gpus)) :
            /\ regions = {} => n = 0
            /\ Apply(step_fails(Cur, r, new_gpus, n))
    /\ UNCHANGED <<scn, regions, econ, iter, tele, nconns, now, st>>

\* The transport hands the payload of the awaited send_json to the peer, after
\* what was sent on the same websocket before.
TransportSent(r) ==
    /\ runs[r].pc = "sending"
    /\ ~runs[r].sent
    /\ conns[runs[r].cur].state = "open"
    /\ conns[runs[r].cur].pc # "catchup"
    /\ Apply([deliver(Cur, runs[r].cur, runs[r].payload)
                 EXCEPT !.runs[r].sent = TRUE, !.hist.pushed[r] = @ + 1])
    /\ UNCHANGED <<scn, regions, econ, iter, tele, nconns, now, st>>

\* broadcast, lines 141-142: the task is resumed after send_json returned;
\* the heartbeat is refreshed and the loop goes on.
RunSendOk(r) ==
    /\ runs[r].pc = "sending"
    /\ runs[r].sent
    /\ ~runs[r].cancel
    /\ \E c \in ConnIds \cup {NoConn} :
         /\ Pick(runs[r].clients, c)
         /\ Apply(send_next([Cur EXCEPT !.m = update_heartbeat(@, runs[r].cur, now)], r, c))
    /\ UNCHANGED <<scn, regions, econ, iter, tele, nconns, now, st>>

\* broadcast, lines 143-146: send_json raised; close is called and awaited.
RunSendFails(r) ==
    /\ runs[r].pc = "sending"
    /\ ~runs[r].sent
    /\ ~runs[r].cancel
    /\ Apply([Cur EXCEPT !.conns = ws_close(@, runs[r].cur, SEND_FAILURE),
                         !.runs[r].pc = "closing",
                         !.runs[r].bc.failed = @ \cup {runs[r].cur}])
    /\ UNCHANGED <<scn, regions, econ, iter, tele, nconns, now, st>>

\* broadcast, line 147: close returned; the connection is cleaned up and the
\* loop goes on.
RunCloseDone_aborts(r) ==
    /\ runs[r].pc = "closing"
    /\ ~runs[r].cancel
    /\ Apply(after_broadcast(cleanup(Cur, runs[r].cur), r))
    /\ UNCHANGED <<scn, regions, econ, iter, tele, nconns, now, st>>

RunCloseDone(r) ==
    /\ runs[r].pc = "closing"
    /\ ~runs[r].cancel
    /\ \E c \in ConnIds \cup {NoConn} :
         /\ Pick(runs[r].clients, c)
         /\ Apply(send_next(cleanup(Cur, runs[r].cur), r, c))
    /\ UNCHANGED <<scn, regions, econ, iter, tele, nconns, now, st>>

\* The cancelled task is resumed: CancelledError is raised at its await (or
\* the task never starts), and the finally clause closes the session.
RunCancelled(r) ==
    /\ runs[r].pc \in {"ready", "sending", "closing", "sleep"}
    /\ runs[r].cancel
    /\ Apply([Cur EXCEPT !.runs[r] = [@ EXCEPT !.pc = "done", !.outcome = "cancelled",
                                               !.cancel = FALSE, !.request = NoRequest,
                                               !.clients = {}, !.cur = NoConn,
                                               !.sent = FALSE]])
    /\ UNCHANGED <<scn, regions, econ, iter, tele, nconns, now, st>>

----------------------------------------------------------------------------
\* The subscribers: simulation_stream / SimulationManager.register, and the
\* peer at the other end of each websocket.

\* simulation_stream and register, lines 106-110: a websocket is accepted and
\* registered; the catch-up send, when there is a latest payload, is awaited.
Register_without_catchup(c) ==
    /\ c = nconns + 1
    /\ c <= scn.conns
    /\ nconns' = c
    /\ m' = add_connection(m, c, now)
    /\ wd' = [wd EXCEPT ![c] = [pc |-> "sleep", wake |-> now + WatchdogInterval, cancel |-> FALSE]]
    /\ conns' = [conns EXCEPT ![c] =
                   [@ EXCEPT !.state = "open",
                             !.pc = "listening",
                             !.reg_run = IF is_running THEN m.task ELSE NoRun]]
    /\ UNCHANGED <<scn, regions, econ, iter, tele, lock, runs, nruns, calls, now, db, st, hist>>

Register(c) ==
    /\ c = nconns + 1
    /\ c <= scn.conns
    /\ nconns' = c
    /\ m' = add_connection(m, c, now)
    /\ wd' = [wd EXCEPT ![c] = [pc |-> "sleep", wake |-> now + WatchdogInterval, cancel |-> FALSE]]
    /\ conns' = [conns EXCEPT ![c] =
                   [@ EXCEPT !.state = "open",
                             !.pc = IF m.latest_payload # NoPayload THEN "catchup" ELSE "listening",
                             !.catchup = m.latest_payload,
                             !.reg_run = IF is_running THEN m.task ELSE NoRun]]
    /\ UNCHANGED <<scn, regions, econ, iter, tele, lock, runs, nruns, calls, now, db, st, hist>>

\* The transport hands the catch-up payload to the peer.
CatchupSent(c) ==
    /\ conns[c].pc = "catchup"
    /\ conns[c].state = "open"
    /\ conns' = [conns EXCEPT ![c].pc = "catchup_sent"]
    /\ hist' = [hist EXCEPT !.received[c] = conns[c].catchup]
    /\ UNCHANGED <<scn, regions, econ, iter, tele, m, lock, runs, nruns, calls, nconns, wd, now, db, st>>

\* register, lines 110-111: the listener is resumed after the catch-up send
\* returned and refreshes the heartbeat.
CatchupOk(c) ==
    /\ conns[c].pc = "catchup_sent"
    /\ conns' = [conns EXCEPT ![c].pc = "listening", ![c].catchup = NoPayload]
    /\ m' = update_heartbeat(m, c, now)
    /\ UNCHANGED <<scn, regions, econ, iter, tele, lock, runs, nruns, calls, nconns, wd, now, db, st, hist>>

\* register, line 109: the catch-up send raised, which is suppressed.
CatchupFails(c) ==
    /\ conns[c].pc = "catchup"
    /\ conns' = [conns EXCEPT ![c].pc = "listening", ![c].catchup = NoPayload]
    /\ UNCHANGED <<scn, regions, econ, iter, tele, m, lock, runs, nruns, calls, nconns, wd, now, db, st, hist>>

\* register, lines 115-117: an inbound message refreshes the heartbeat.
ListenerReceive(c) ==
    /\ conns[c].pc = "listening"
    /\ conns[c].state = "open"
    /\ m' = update_heartbeat(m, c, now)
    /\ UNCHANGED <<scn, regions, econ, iter, tele, lock, runs, nruns, calls, conns, nconns, wd, now, db, st, hist>>

\* register, lines 118-125: receive_text raised on a websocket that is no
\* longer open; the listener cleans up and exits.
ListenerExit(c) ==
    /\ conns[c].pc = "listening"
    /\ conns[c].state = "closed"
    /\ Apply([cleanup(Cur, c) EXCEPT !.conns[c].pc = "exited"])
    /\ UNCHANGED <<scn, regions, econ, iter, tele, nconns, now, st>>

\* The peer closes the websocket, or the network drops it.
PeerDisconnect(c) ==
    /\ conns[c].state = "open"
    /\ conns' = [conns EXCEPT ![c].state = "closed", ![c].close_reason = "peer"]
    /\ UNCHANGED <<scn, regions, econ, iter, tele, m, lock, runs, nruns, calls, nconns, wd, now, db, st, hist>>

----------------------------------------------------------------------------
\* The watchdogs: SimulationManager._watchdog.

\* _watchdog, line 255
is_stale_early(last, t) == t - last >= StaleTimeout

is_stale_late(last, t) == t - last > StaleTimeout + WatchdogInterval

is_stale(last, t) == t - last > StaleTimeout

\* _watchdog, lines 248-261: the sleep is over and the connection is checked.
WatchdogWake(c) ==
    /\ wd[c].pc = "sleep"
    /\ ~wd[c].cancel
    /\ now >= wd[c].wake
    /\ IF c \notin m.clients
       THEN /\ m' = cleanup_connection(m, c)
            /\ wd' = [wd EXCEPT ![c] = [pc |-> "done", wake |-> NoTime, cancel |-> FALSE]]
            /\ conns' = conns
       ELSE IF is_stale(m.last_heartbeat[c], now)
       THEN /\ conns' = ws_close(conns, c, STALE_CONNECTION)
            /\ wd' = [wd EXCEPT ![c].pc = "closing"]
            /\ m' = m
       ELSE /\ wd' = [wd EXCEPT ![c].wake = now + WatchdogInterval]
            /\ UNCHANGED <<scn, regions, econ, iter, tele, m, conns>>
    /\ UNCHANGED <<scn, regions, econ, iter, tele, lock, runs, nruns, calls, nconns, now, db, st, hist>>

\* _watchdog, lines 258-261: close returned; the finally clause cleans up.
WatchdogCloseDone(c) ==
    /\ wd[c].pc = "closing"
    /\ ~wd[c].cancel
    /\ m' = cleanup_connection(m, c)
    /\ wd' = [wd EXCEPT ![c] = [pc |-> "done", wake |-> NoTime, cancel |-> FALSE]]
    /\ UNCHANGED <<scn, regions, econ, iter, tele, lock, runs, nruns, calls, conns, nconns, now, db, st, hist>>

\* The cancelled watchdog is resumed: CancelledError at its await, then the
\* finally clause.
WatchdogCancelled(c) ==
    /\ wd[c].pc \in {"sleep", "closing"}
    /\ wd[c].cancel
    /\ m' = cleanup_connection(m, c)
    /\ wd' = [wd EXCEPT ![c] = [pc |-> "done", wake |-> NoTime, cancel |-> FALSE]]
    /\ UNCHANGED <<scn, regions, econ, iter, tele, lock, runs, nruns, calls, conns, nconns, now, db, st, hist>>

\* The clock advances, unless a watchdog is due or is closing its connection.
Tick ==
    /\ now + TickSeconds <= scn.time
    /\ \A c \in ConnIds :
         ~wd[c].cancel =>
            /\ wd[c].pc = "sleep" => now < wd[c].wake
            /\ wd[c].pc # "closing"
    /\ now' = now + TickSeconds
    /\ UNCHANGED <<scn, regions, econ, iter, tele, m, lock, runs, nruns, calls, conns, nconns, wd, db, st, hist>>

----------------------------------------------------------------------------
\* The store's region table, read by regions_financial_snapshot: its rows
\* are deleted by the store's operator.  This happens while no accepted start
\* is pending and no task is waiting for its first iteration, so that every
\* task begins with the regions HQ and Other.
RegionsDeleted ==
    /\ scn.wipe
    /\ regions # {}
    /\ PendingStarts = {}
    /\ \A r \in RunIds : runs[r].pc # "ready"
    /\ regions' = {}
    /\ UNCHANGED <<scn, econ, iter, tele, m, lock, runs, nruns, calls, conns, nconns, wd, now, db, st, hist>>

----------------------------------------------------------------------------
\* status(), called by the /health route on a worker thread.

\* status, lines 164-181: the snapshot under the state lock
StatusSnapshot_under_lifecycle_lock ==
    /\ st.pc = "idle"
    /\ st.calls < scn.status
    /\ lock.holder = NoCall
    /\ st' = [pc |-> "snapshot", snap |-> m, running |-> is_running, at |-> now,
               calls |-> st.calls + 1, held |-> lock.holder]
    /\ UNCHANGED <<scn, regions, econ, iter, tele, m, lock, runs, nruns, calls, conns, nconns, wd, now, db, hist>>

StatusSnapshot ==
    /\ st.pc = "idle"
    /\ st.calls < scn.status
    /\ st' = [pc |-> "snapshot", snap |-> m, running |-> is_running, at |-> now,
               calls |-> st.calls + 1, held |-> lock.holder]
    /\ UNCHANGED <<scn, regions, econ, iter, tele, m, lock, runs, nruns, calls, conns, nconns, wd, now, db, hist>>

\* status, lines 183-207: the result built from the snapshot (taken at time
\* "at"), from self._current_iteration as it is when the result is built and
\* from the clock t at that time
status_result(snap, running, at, iteration, t) ==
    [ running |-> running,
      configuration |-> snap.current_request,
      active_clients |-> Cardinality(snap.clients),
      clients |-> [c \in snap.clients |-> at - snap.last_heartbeat[c]],
      messages_sent |-> snap.messages_sent,
      disconnects |-> snap.disconnects,
      last_broadcast |-> snap.last_broadcast_at,
      last_broadcast_age_seconds |->
          IF snap.last_broadcast_at # NoTime THEN t - snap.last_broadcast_at ELSE NoTime,
      current_iteration |-> iteration,
      stale_timeout_seconds |-> StaleTimeout,
      latest_payload |-> snap.latest_payload,
      finance |-> snap.finance_snapshot ]

\* status, lines 183-207: the result is built and returned
StatusReturn ==
    /\ st.pc = "snapshot"
    /\ st' = [st EXCEPT !.pc = "idle", !.snap = ManagerInit, !.running = FALSE,
                        !.at = NoTime]
    /\ UNCHANGED <<scn, regions, econ, iter, tele, m, lock, runs, nruns, calls, conns, nconns, wd, now, db, hist>>

----------------------------------------------------------------------------
Next ==
    \/ \E k \in CallIds, op \in {"start", "stop", "reset"}, req \in Requests : Invoke(k, op, req)
    \/ \E k \in CallIds : CallGranted(k)
    \/ \E k \in CallIds : CallTaskExited(k)
    \/ \E k \in CallIds : CallCloseDone(k)
    \/ \E r \in RunIds : RunStep(r)
    \/ \E r \in RunIds : RunStepFails(r)
    \/ \E r \in RunIds : TransportSent(r)
    \/ \E r \in RunIds : RunSendOk(r)
    \/ \E r \in RunIds : RunSendFails(r)
    \/ \E r \in RunIds : RunCloseDone(r)
    \/ \E r \in RunIds : RunCancelled(r)
    \/ \E c \in ConnIds : Register(c)
    \/ \E c \in ConnIds : CatchupSent(c)
    \/ \E c \in ConnIds : CatchupOk(c)
    \/ \E c \in ConnIds : CatchupFails(c)
    \/ \E c \in ConnIds : ListenerReceive(c)
    \/ \E c \in ConnIds : ListenerExit(c)
    \/ \E c \in ConnIds : PeerDisconnect(c)
    \/ \E c \in ConnIds : WatchdogWake(c)
    \/ \E c \in ConnIds : WatchdogCloseDone(c)
    \/ \E c \in ConnIds : WatchdogCancelled(c)
    \/ Tick
    \/ RegionsDeleted
    \/ StatusSnapshot
    \/ StatusReturn

Spec == Init /\ [][Next]_vars

----------------------------------------------------------------------------
\* The economy of _run_simulation in numbers: the arithmetic of one loop
\* iteration (lines 283-420) on the world state and the capacities, and the
\* life of the "state" dict a task loads once (line 278) and then updates in
\* memory (lines 409-416).  Revenue and cost of a region are the step's
\* draws; a region of capacity 0 earns and costs nothing (lines 314-321).

\* ---- bounds of the economy ----
EconSteps == 2
SpendQuarters == {0, 1, 4}
GpuCosts == {40000, 300000}
Revenues == {0, 60000}
Costs == {0, 70000}
Worlds ==
    { WorldZero,
      [capital_cents |-> 1000000, total_revenue_cents |-> 1000000, total_cost_cents |-> 0,
       total_spent_cents |-> 0] }

\* spend_ratio is a float in [0, 1]; the model takes the ratios that are a
\* number of quarters, which a float holds exactly, so that
\* int(available_capital * spend_ratio) is the exact floor of the product.
RatioDenominator == 4

BASE_REGION_CAPACITY == 16
HQ_BASE_CAPACITY == 0

Min(a, b) == IF a <= b THEN a ELSE b

\* _run_simulation, lines 291 and 308: the capacity given to a region that
\* has no simulation_region row
default_capacity(g) == IF g = HQ THEN HQ_BASE_CAPACITY ELSE BASE_REGION_CAPACITY

\* _run_simulation, lines 288-310: the capacities read from the store, with
\* the default (also written to the store) for every region that has none
capacities_loaded(cap) ==
    [g \in DOMAIN cap |-> IF cap[g] = NoCapacity THEN default_capacity(g) ELSE cap[g]]

\* _run_simulation, lines 380-382: the totals over the regions
totals(draws) ==
    [ revenue_cents |-> draws[HQ].revenue_cents + draws[Other].revenue_cents,
      cost_cents |-> draws[HQ].cost_cents + draws[Other].cost_cents,
      profit_cents |-> (draws[HQ].revenue_cents - draws[HQ].cost_cents)
                       + (draws[Other].revenue_cents - draws[Other].cost_cents) ]

\* _run_simulation, lines 388-395: the expansion rule
expansion_spends_all(capital_cents, profit_total, quarters, gpu_cost) ==
    LET available_capital == Max(capital_cents + Max(profit_total, 0), 0)
        affordable_gpus == IF gpu_cost > 0 THEN available_capital \div gpu_cost ELSE 0
    IN [new_gpus |-> affordable_gpus, spent_capex |-> affordable_gpus * gpu_cost]

expansion(capital_cents, profit_total, quarters, gpu_cost) ==
    LET available_capital == Max(capital_cents + Max(profit_total, 0), 0)
        spend_budget == (available_capital * quarters) \div RatioDenominator
        affordable_gpus == IF gpu_cost > 0 THEN available_capital \div gpu_cost ELSE 0
        planned_gpus == IF gpu_cost > 0 THEN spend_budget \div gpu_cost ELSE 0
        new_gpus == IF gpu_cost > 0 THEN Min(planned_gpus, affordable_gpus) ELSE 0
    IN [new_gpus |-> new_gpus, spent_capex |-> new_gpus * gpu_cost]

\* _run_simulation, lines 397-400: the new world state
world_update_keeps_capital(state, tot, spent_capex) ==
    [ capital_cents |-> state.capital_cents + tot.profit_cents,
      total_revenue_cents |-> state.total_revenue_cents + tot.revenue_cents,
      total_cost_cents |-> state.total_cost_cents + tot.cost_cents,
      total_spent_cents |-> state.total_spent_cents + spent_capex ]

world_update(state, tot, spent_capex) ==
    [ capital_cents |-> state.capital_cents + tot.profit_cents - spent_capex,
      total_revenue_cents |-> state.total_revenue_cents + tot.revenue_cents,
      total_cost_cents |-> state.total_cost_cents + tot.cost_cents,
      total_spent_cents |-> state.total_spent_cents + spent_capex ]

\* _run_simulation, lines 418-420: the purchased GPUs go to the HQ region
capacity_expand_everywhere(cap, new_gpus) ==
    IF new_gpus > 0 THEN [g \in DOMAIN cap |-> cap[g] + new_gpus] ELSE cap

capacity_expand(cap, new_gpus) ==
    IF new_gpus > 0 THEN [cap EXCEPT ![HQ] = @ + new_gpus] ELSE cap

\* The draws a step can make with these capacities
DrawsFor(cap) ==
    { d \in [{HQ, Other} -> [revenue_cents : Revenues, cost_cents : Costs]] :
        \A g \in {HQ, Other} : cap[g] = 0 => d[g] = NoDraws[g] }

\* _run_simulation, lines 283-499: one iteration that commits
econ_step_without_state_update(e, draws) ==
    LET caps == capacities_loaded(e.capacity)
        tot == totals(draws)
        x == expansion(e.state.capital_cents, tot.profit_cents,
                       e.request.quarters, e.request.gpu_cost)
        w == world_update(e.state, tot, x.spent_capex)
    IN [e EXCEPT !.world = w,
                 !.capacity = capacity_expand(caps, x.new_gpus),
                 !.last = [prior |-> e.world, capacities |-> e.capacity, draws |-> draws,
                           request |-> e.request, new_gpus |-> x.new_gpus,
                           spent_capex |-> x.spent_capex],
                 !.steps = @ + 1]

econ_step(e, draws) ==
    LET caps == capacities_loaded(e.capacity)
        tot == totals(draws)
        x == expansion(e.state.capital_cents, tot.profit_cents,
                       e.request.quarters, e.request.gpu_cost)
        w == world_update(e.state, tot, x.spent_capex)
    IN [e EXCEPT !.state = w,
                 !.world = w,
                 !.capacity = capacity_expand(caps, x.new_gpus),
                 !.last = [prior |-> e.world, capacities |-> e.capacity, draws |-> draws,
                           request |-> e.request, new_gpus |-> x.new_gpus,
                           spent_capex |-> x.spent_capex],
                 !.steps = @ + 1]

\* start(): a task begins and loads the world state (line 278)
EconStart(q, g) ==
    /\ ~econ.running
    /\ econ' = [econ EXCEPT !.running = TRUE,
                            !.request = [quarters |-> q, gpu_cost |-> g],
                            !.state = econ.world]
    /\ UNCHANGED <<control_vars, iter, tele>>

\* One iteration of the task
EconStep(draws) ==
    /\ econ.running
    /\ econ.steps < EconSteps
    /\ draws \in DrawsFor(capacities_loaded(econ.capacity))
    /\ econ' = econ_step(econ, draws)
    /\ UNCHANGED <<control_vars, iter, tele>>

\* An iteration in which a store operation fails: the session is rolled back
\* and the task ends
EconStepFails ==
    /\ econ.running
    /\ econ.steps < EconSteps
    /\ econ' = [econ EXCEPT !.running = FALSE, !.request = NoEconRequest,
                            !.state = WorldZero, !.steps = @ + 1]
    /\ UNCHANGED <<control_vars, iter, tele>>

\* stop(): the task is cancelled in its sleep
EconStop ==
    /\ econ.running
    /\ econ' = [econ EXCEPT !.running = FALSE, !.request = NoEconRequest,
                            !.state = WorldZero]
    /\ UNCHANGED <<control_vars, iter, tele>>

\* reset() with no task running: dao.reset_simulation_data
EconReset ==
    /\ ~econ.running
    /\ econ.world # WorldZero \/ econ.capacity # NoCapacities
    /\ econ' = [econ EXCEPT !.world = WorldZero, !.capacity = NoCapacities,
                            !.last = NoStep]
    /\ UNCHANGED <<control_vars, iter, tele>>

EconScenario ==
    [name |-> "economy", runs |-> 0, calls |-> 0, conns |-> 0, steps |-> 0,
     status |-> 0, time |-> 0, wipe |-> FALSE, requests |-> {}]

EconInit ==
    /\ scn = EconScenario
    /\ ProgramInit
    /\ iter = NoIteration
    /\ tele = NoTelemetry
    /\ econ \in {EconIdle(w) : w \in Worlds}

EconNext ==
    \/ \E q \in SpendQuarters, g \in GpuCosts : EconStart(q, g)
    \/ \E draws \in [{HQ, Other} -> [revenue_cents : Revenues, cost_cents : Costs]] :
         EconStep(draws)
    \/ EconStepFails
    \/ EconStop
    \/ EconReset

EconSpec == EconInit /\ [][EconNext]_vars

----------------------------------------------------------------------------
\* One region's turn in the loop of an iteration (_run_simulation, lines
\* 305-335): from the capacity the store holds for the region and the value
\* random.normalvariate returns, to the GPUs in use, the utilization percent
\* and the status written for the region.

\* Utilization is counted in thousandths.
UtilizationScale == 1000
\* ---- bounds: the values drawn and the capacities stored ----
UtilizationDraws ==
    {-100, 0, 49, 50, 200, 245, 250, 255, 500, 695, 700, 705, 750, 895, 900, 920, 980,
     981, 1500}
StoredCapacities == {NoCapacity, 0, 1, 3, 16, 25, 50}

\* round(x) of Python 3 for x = num / den >= 0: to the nearest integer, a tie
\* to the even one
round_half_even(num, den) ==
    LET q == num \div den
        r == num % den
    IN IF 2 * r < den THEN q
       ELSE IF 2 * r > den THEN q + 1
       ELSE IF q % 2 = 0 THEN q ELSE q + 1

\* _run_simulation, line 313: the draw is clamped to [0.05, 0.98]
clamp_missing(raw) == raw

clamp(raw) == Max(50, Min(980, raw))

\* _run_simulation, lines 327-335: the status of a utilization percent
region_status_strict(util_percent) ==
    IF util_percent > 90 THEN "congested"
    ELSE IF util_percent > 70 THEN "busy"
    ELSE IF util_percent < 25 THEN "idle"
    ELSE "healthy"

region_status(util_percent) ==
    IF util_percent >= 90 THEN "congested"
    ELSE IF util_percent >= 70 THEN "busy"
    ELSE IF util_percent <= 25 THEN "idle"
    ELSE "healthy"

\* _run_simulation, lines 307-335: the turn of region g, whose stored
\* capacity is "stored", with the draw "raw"
region_iteration(g, stored, raw) ==
    LET capacity == Max(IF stored = NoCapacity THEN default_capacity(g) ELSE stored, 0)
        utilization == clamp(raw)
        used_gpus == round_half_even(utilization * capacity, UtilizationScale)
        free_gpus == Max(capacity - used_gpus, 0)
        util_percent == round_half_even(utilization * 100, UtilizationScale)
    IN [region |-> g, capacity |-> capacity, raw |-> raw, utilization |-> utilization,
        used_gpus |-> used_gpus, free_gpus |-> free_gpus, util_percent |-> util_percent,
        status |-> region_status(util_percent)]

\* The loop of an iteration reaches region g.
RegionIteration(g, stored, raw) ==
    /\ iter' = region_iteration(g, stored, raw)
    /\ UNCHANGED <<control_vars, econ, tele>>

RegionScenario ==
    [name |-> "region", runs |-> 0, calls |-> 0, conns |-> 0, steps |-> 0,
     status |-> 0, time |-> 0, wipe |-> FALSE, requests |-> {}]

RegionInit ==
    /\ scn = RegionScenario
    /\ ProgramInit
    /\ econ = EconIdle(WorldZero)
    /\ iter = NoIteration
    /\ tele = NoTelemetry

RegionNext ==
    \E g \in {HQ, Other}, stored \in StoredCapacities, raw \in UtilizationDraws :
        RegionIteration(g, stored, raw)

RegionSpec == RegionInit /\ [][RegionNext]_vars

----------------------------------------------------------------------------
\* The telemetry table: the rows an iteration appends (_run_simulation, lines
\* 324-325 and 449-461; dao.record_telemetry) and what GET /simulate/telemetry
\* makes of them (recent_simulation; dao.recent_telemetry).

\* ---- bounds of the telemetry ----
TelemetrySteps == 2
TelemetryLimit == 3
\* What a region's row of a step holds: utilization in thousandths, and cents
RowDraws ==
    { [utilization |-> 500, revenue_cents |-> 250, cost_cents |-> 40],
      [utilization |-> 905, revenue_cents |-> 100, cost_cents |-> 300] }
\* region.simulated_time when the first step begins: the same for the two
\* regions (reset stamps every region with one now()) or not
SimulatedTimes == [{HQ, Other} -> {Epoch, [minute |-> 0, microsecond |-> 7]}]
StepMinutes == 30

\* datetime + timedelta(hours=step_hours), line 325
next_sim_ts(ts) == [ts EXCEPT !.minute = @ + StepMinutes]

\* The order of two datetimes
ts_less(a, b) ==
    \/ a.minute < b.minute
    \/ a.minute = b.minute /\ a.microsecond < b.microsecond

\* datetime.isoformat(): the microseconds are left out when they are zero
isoformat(ts) ==
    IF ts.microsecond = 0 THEN <<ts.minute>> ELSE <<ts.minute, ts.microsecond>>

\* The ways the store can order rows by ts DESC: rows of equal ts come in any
\* order
RECURSIVE DescOrders(_)
DescOrders(rows) ==
    IF rows = {} THEN {<<>>}
    ELSE UNION { { <<r>> \o t : t \in DescOrders(rows \ {r}) } :
                 r \in {x \in rows : \A y \in rows : ~ts_less(x.ts, y.ts)} }

\* dao.recent_telemetry: ORDER BY t.ts DESC LIMIT :limit
recent_telemetry(order, limit) == SubSeq(order, 1, Min(limit, Len(order)))

Reverse(seq) == [i \in 1..Len(seq) |-> seq[Len(seq) + 1 - i]]

RECURSIVE SumSeq(_)
SumSeq(seq) == IF seq = <<>> THEN 0 ELSE Head(seq) + SumSeq(Tail(seq))

\* recent_simulation, lines 564-595: a row joins the bucket of its ts_key, a
\* new bucket being appended for a key not seen yet (ordered_keys)
add_row(points, row) ==
    LET ts_key == isoformat(row.ts)
        entry == [code |-> row.region,
                  utilization |-> row.utilization * 10,
                  revenue_cents |-> row.revenue_cents,
                  cost_cents |-> row.cost_cents,
                  profit_cents |-> row.revenue_cents - row.cost_cents]
        with_key == IF \E i \in 1..Len(points) : points[i].timestamp = ts_key
                    THEN points
                    ELSE Append(points,
                                [timestamp |-> ts_key, regions |-> <<>>,
                                 totals |-> [revenue_cents |-> 0, cost_cents |-> 0,
                                             profit_cents |-> 0, avg_utilization |-> 0]])
    IN [i \in 1..Len(with_key) |->
          IF with_key[i].timestamp = ts_key
          THEN [with_key[i] EXCEPT !.regions = Append(@, entry),
                                   !.totals.revenue_cents = @ + row.revenue_cents,
                                   !.totals.cost_cents = @ + row.cost_cents]
          ELSE with_key[i]]

RECURSIVE bucket_rows(_, _)
bucket_rows(rows, points) ==
    IF rows = <<>> THEN points ELSE bucket_rows(Tail(rows), add_row(points, Head(rows)))

\* recent_simulation, lines 597-610: the totals of a bucket; utilization is in
\* hundredths of a percent (round(., 2))
bucket_totals(bucket) ==
    [bucket EXCEPT
        !.totals.profit_cents = bucket.totals.revenue_cents - bucket.totals.cost_cents,
        !.totals.avg_utilization =
            IF bucket.regions # <<>>
            THEN round_half_even(
                    SumSeq([i \in 1..Len(bucket.regions) |-> bucket.regions[i].utilization]),
                    Len(bucket.regions))
            ELSE 0]

\* points[-limit:], line 620
last_points(points, limit) ==
    IF limit = 0 \/ limit >= Len(points) THEN points
    ELSE SubSeq(points, Len(points) - limit + 1, Len(points))

\* recent_simulation, lines 562-620, on the rows recent_telemetry returned
recent_simulation_unreversed(fetched, limit) ==
    LET buckets == bucket_rows(fetched, <<>>)
    IN last_points([i \in 1..Len(buckets) |-> bucket_totals(buckets[i])], limit)

recent_simulation(fetched, limit) ==
    LET buckets == bucket_rows(Reverse(fetched), <<>>)
    IN last_points([i \in 1..Len(buckets) |-> bucket_totals(buckets[i])], limit)

\* An iteration of a run appends one row per region, stamped with the
\* region's simulated time advanced by the step, and commits.
TelemetryStep(draws) ==
    /\ tele.steps < TelemetrySteps
    /\ LET stamp == [g \in {HQ, Other} |-> next_sim_ts(tele.simulated_time[g])]
       IN tele' = [tele EXCEPT
                     !.simulated_time = stamp,
                     !.rows = @ \cup { [region |-> g, ts |-> stamp[g],
                                        utilization |-> draws[g].utilization,
                                        revenue_cents |-> draws[g].revenue_cents,
                                        cost_cents |-> draws[g].cost_cents] :
                                       g \in {HQ, Other} },
                     !.steps = @ + 1]
    /\ UNCHANGED <<control_vars, econ, iter>>

\* GET /simulate/telemetry?limit=...
TelemetryQuery(limit, order) ==
    /\ order \in DescOrders(tele.rows)
    /\ tele' = [tele EXCEPT
                  !.query = [limit |-> limit, stored |-> tele.rows,
                             points |-> recent_simulation(recent_telemetry(order, limit),
                                                          limit)]]
    /\ UNCHANGED <<control_vars, econ, iter>>

TelemetryScenario ==
    [name |-> "telemetry", runs |-> 0, calls |-> 0, conns |-> 0, steps |-> 0,
     status |-> 0, time |-> 0, wipe |-> FALSE, requests |-> {}]

TelemetryInit ==
    /\ scn = TelemetryScenario
    /\ ProgramInit
    /\ econ = EconIdle(WorldZero)
    /\ iter = NoIteration
    /\ tele \in {[NoTelemetry EXCEPT !.simulated_time = t] : t \in SimulatedTimes}

TelemetryNext ==
    \/ \E draws \in [{HQ, Other} -> RowDraws] : TelemetryStep(draws)
    \/ \E limit \in 0..TelemetryLimit :
         \E order \in DescOrders(tele.rows) : TelemetryQuery(limit, order)

TelemetrySpec == TelemetryInit /\ [][TelemetryNext]_vars

----------------------------------------------------------------------------
\* Properties.

\* A run task that has been created and has not exited
Live(r) == runs[r].pc \notin {"absent", "done"}

\* C1: at most one run task is alive at any instant: start() creates the task
\* of a new run only after the previous run's task has been cancelled and has
\* exited, whatever the interleaving of start, stop and reset calls.
C1_SingleRun ==
    /\ Cardinality({r \in RunIds : Live(r)}) <= 1
    /\ \A r \in RunIds : Live(r) => m.task = r

C1_Witness ==
    /\ runs[1].outcome = "cancelled"
    /\ runs[1].step_index >= 1
    /\ Live(2)
    /\ runs[2].pc = "sleep"

C3_Retired == \A r \in hist.retired : TaskDone(r)

C3_Silent ==
    \A r \in hist.retired :
        /\ hist'.commits[r] = hist.commits[r]
        /\ hist'.pushed[r] = hist.pushed[r]
        /\ runs'[r] = runs[r]

C3_StopWaitsForExit == [](C3_Retired) /\ [][C3_Silent]_vars

C3_Witness ==
    \E r \in hist.retired :
        /\ runs[r].outcome = "cancelled"
        /\ runs[r].bc.snapshot # {}
        /\ ~runs[r].bc.complete
        /\ \A k \in CallIds : calls[k].pc \in {"idle", "done"}

\* C4: a payload reaches a subscriber, or becomes the latest payload, only
\* after the commit of its step: its iteration never exceeds the number of
\* steps its run has committed.
Committed(p) == p = NoPayload \/ p.iteration <= hist.commits[p.run]

C4_CommitBeforeBroadcast ==
    /\ Committed(m.latest_payload)
    /\ \A c \in ConnIds : Committed(hist.received[c]) /\ Committed(conns[c].catchup)
    /\ \A r \in RunIds : runs[r].pc \in {"sending", "closing"} => Committed(runs[r].payload)

C4_Witness ==
    \E c \in ConnIds :
        /\ hist.received[c] # NoPayload
        /\ hist.received[c].iteration = 2
        /\ hist.commits[hist.received[c].run] = 2

\* C5: the durable store holds whole steps only: every table a step writes
\* holds the rows of the same steps, each with its world-state update exactly
\* once and the rows of every region, and only of steps that were committed.
Tags(t) == {[run |-> db[t][i].run, step |-> db[t][i].step] : i \in 1..Len(db[t])}

Rows(t, tag) == {i \in 1..Len(db[t]) : db[t][i].run = tag.run /\ db[t][i].step = tag.step}

C5_WholeSteps ==
    /\ Tags("region") = Tags("simulation_state")
    /\ Tags("region_stats") = Tags("simulation_state")
    /\ Tags("telemetry") = Tags("simulation_state")
    /\ Tags("simulation_region") \subseteq Tags("simulation_state")
    /\ \A tag \in Tags("simulation_state") :
         /\ Cardinality(Rows("simulation_state", tag)) = 1
         /\ Cardinality(Rows("region", tag)) = 2
         /\ Cardinality(Rows("region_stats", tag)) = 2
         /\ Cardinality(Rows("telemetry", tag)) = 2
         /\ tag.step <= hist.commits[tag.run]

C5_Witness ==
    /\ Len(db["simulation_state"]) = 1
    /\ \E r \in RunIds : runs[r].outcome = "failed" /\ hist.commits[r] = 1

\* C6: when a broadcast to the connections of its snapshot has returned and
\* the send to exactly one of them failed, that connection is closed and
\* removed, every other connection of the snapshot has received the payload
\* and, if still registered, has a heartbeat no older than the broadcast, and
\* the disconnect counter has grown by exactly 1 if no other connection left
\* the registry meanwhile.
C6_OneFailure ==
    \A r \in RunIds :
        (runs[r].bc.complete /\ m.task = r /\ Cardinality(runs[r].bc.failed) = 1) =>
            \A f \in runs[r].bc.failed :
                /\ f \notin m.clients
                /\ conns[f].state = "closed"
                /\ \A c \in runs[r].bc.snapshot \ {f} :
                     /\ hist.received[c] = m.latest_payload
                     /\ c \in m.clients => m.last_heartbeat[c] >= m.last_broadcast_at
                /\ Removed(Cur) \ runs[r].bc.removed = {f} =>
                     m.disconnects = runs[r].bc.disconnects + 1

C6_Witness ==
    \E r \in RunIds :
        /\ runs[r].bc.complete
        /\ m.task = r
        /\ Cardinality(runs[r].bc.snapshot) = 2
        /\ Cardinality(runs[r].bc.failed) = 1
        /\ m.last_broadcast_at > 0
        /\ Removed(Cur) \ runs[r].bc.removed = runs[r].bc.failed
        /\ m.disconnects = runs[r].bc.disconnects + 1
        /\ \A c \in runs[r].bc.snapshot \ runs[r].bc.failed : c \in m.clients

\* C7: in every state the active set, the keys of the heartbeat map and the
\* keys of the watchdog map are the same set of connections.
C7_RegistryInSync ==
    /\ m.clients = DOMAIN m.last_heartbeat
    /\ m.clients = m.watchdogs

C7_Witness ==
    \E r \in RunIds :
        /\ runs[r].pc = "sending"
        /\ runs[r].sent
        /\ ~runs[r].cancel
        /\ runs[r].cur \notin m.clients
        /\ m.clients # {}

\* C8: a registered connection's heartbeat is never older than the stale
\* timeout plus one watchdog interval, and once it is older than the stale
\* timeout its watchdog is due or already closing it, so it is removed before
\* the clock advances again.
C8_StaleReaped ==
    \A c \in m.clients :
        /\ now - m.last_heartbeat[c] <= StaleTimeout + WatchdogInterval
        /\ now - m.last_heartbeat[c] > StaleTimeout =>
             \/ wd[c].pc = "closing"
             \/ wd[c].pc = "sleep" /\ wd[c].wake <= now /\ ~wd[c].cancel

C8_Witness ==
    \E c \in ConnIds :
        /\ conns[c].close_reason = STALE_CONNECTION
        /\ c \notin m.clients
        /\ wd[c].pc = "done"
        /\ now = StaleTimeout + WatchdogInterval

\* C9: while a start / stop / reset call holds the lifecycle lock and is
\* suspended inside its critical section, a status() call can take its
\* snapshot and return: it never waits for the lifecycle lock.
LifecycleSuspended ==
    \E k \in CallIds : lock.holder = k /\ calls[k].pc \in {"await_task", "closing"}

C9_StatusNeverWaits ==
    LifecycleSuspended =>
        /\ (st.pc = "idle" /\ st.calls < scn.status) => ENABLED StatusSnapshot
        /\ st.pc = "snapshot" => ENABLED StatusReturn

C9_Witness ==
    /\ st.pc = "idle"
    /\ st.calls = 1
    /\ st.held # NoCall
    /\ lock.holder = st.held
    /\ calls[st.held].pc = "await_task"

\* C10: within one broadcast no connection waits for a slow peer: while a
\* send is in flight, no other connection of the snapshot is still waiting
\* for its send to be issued.
C10_NoHeadOfLineBlocking ==
    \A r \in RunIds :
        (runs[r].pc = "sending" /\ ~runs[r].sent) => runs[r].clients = {}

\* C11: register(conn) adds the connection with heartbeat = now and a sleeping
\* watchdog, and, when a latest payload exists at that moment, starts the
\* catch-up send of that payload; as long as the catch-up send is pending the
\* connection has received nothing, and the first payload it receives is the
\* catch-up payload, so no later broadcast payload reaches it first.
C11_Registers ==
    \A c \in ConnIds :
        (conns[c].pc = "new" /\ conns'[c].pc # "new") =>
            /\ c \in m'.clients
            /\ c \in DOMAIN m'.last_heartbeat
            /\ m'.last_heartbeat[c] = now
            /\ c \in m'.watchdogs
            /\ wd'[c].pc = "sleep"
            /\ m.latest_payload # NoPayload =>
                 /\ conns'[c].pc = "catchup"
                 /\ conns'[c].catchup = m.latest_payload

C11_CatchupPending ==
    \A c \in ConnIds : conns[c].pc = "catchup" => hist.received[c] = NoPayload

C11_CatchupDelivered ==
    \A c \in ConnIds :
        (conns[c].pc = "catchup" /\ hist'.received[c] # hist.received[c]) =>
            hist'.received[c] = conns[c].catchup

C11_CatchupFirst ==
    [](C11_CatchupPending) /\ [][C11_Registers /\ C11_CatchupDelivered]_vars

C11_Witness ==
    \E c \in ConnIds, r \in RunIds :
        /\ conns[c].pc = "catchup_sent"
        /\ hist.received[c] = [run |-> r, iteration |-> 1]
        /\ runs[r].pc = "sending"
        /\ runs[r].cur = c
        /\ ~runs[r].sent
        /\ runs[r].payload = [run |-> r, iteration |-> 2]

\* The run counters reported by status()
Counters == <<m.current_iteration, m.messages_sent, m.disconnects, m.last_broadcast_at>>

\* A step of a stop() call that found no active run: its invocation, its
\* getting the lifecycle lock, or a turn of its _close_all_clients loop.
IdleStopStep(k) ==
    \/ ~is_running /\ Invoke(k, "stop", NoRequest)
    \/ ~is_running /\ calls[k].op = "stop" /\ CallGranted(k)
    \/ /\ calls[k].op = "stop"
       /\ calls[k].target = NoRun \/ runs[calls[k].target].outcome # "cancelled"
       /\ CallCloseDone(k)

\* C12: stop() with no active run leaves the counters iteration,
\* messages_sent, disconnects and last_broadcast_at unchanged: no step of such
\* a call changes any of them.
C12_IdleStopKeepsCounters ==
    [][\A k \in CallIds : IdleStopStep(k) => Counters' = Counters]_vars

\* C13: when start() returns (the step that creates the task of the new run)
\* the run counters are reset: iteration = 0, messages_sent = 0,
\* disconnects = 0 and last_broadcast_at is cleared.
C13_StartResetsCounters ==
    [][nruns' # nruns =>
         /\ m'.current_iteration = 0
         /\ m'.messages_sent = 0
         /\ m'.disconnects = 0
         /\ m'.last_broadcast_at = NoTime]_vars

\* C14: a run in which a store operation failed has terminated: its task is
\* done, so it is reported as not running; the failed step was not committed
\* and its payload was never broadcast (nothing the run published has an
\* iteration beyond its completed steps); and from then on the run neither
\* retries the step nor performs another one.
C14_Terminated ==
    \A r \in RunIds :
        runs[r].outcome = "failed" =>
            /\ TaskDone(r)
            /\ m.task = r => ~is_running
            /\ hist.commits[r] = runs[r].step_index
            /\ m.latest_payload.run = r => m.latest_payload.iteration <= runs[r].step_index
            /\ \A c \in ConnIds :
                 /\ hist.received[c].run = r => hist.received[c].iteration <= runs[r].step_index
                 /\ conns[c].catchup.run = r => conns[c].catchup.iteration <= runs[r].step_index

C14_NoRetry ==
    \A r \in RunIds :
        runs[r].outcome = "failed" =>
            /\ runs'[r] = runs[r]
            /\ hist'.commits[r] = hist.commits[r]
            /\ hist'.pushed[r] = hist.pushed[r]

C14_FailureIsFatal == [](C14_Terminated) /\ [][C14_NoRetry]_vars

C14_Witness ==
    \E r \in RunIds :
        /\ runs[r].outcome = "failed"
        /\ runs[r].step_index = 1
        /\ m.task = r
        /\ m.latest_payload = [run |-> r, iteration |-> 1]
        /\ m.current_request.continuous

\* The result the pending status() call returns in this state
StatusResult == status_result(st.snap, st.running, st.at, m.current_iteration, now)

\* C15: a status() snapshot taken after a persistence failure has ended the
\* run reports the error: its result has an entry for the error that stopped
\* the run.
C15_StatusReportsError ==
    ( /\ st.pc = "snapshot"
      /\ st.snap.task # NoRun
      /\ ~st.running
      /\ runs[st.snap.task].outcome = "failed" ) =>
        "error" \in DOMAIN StatusResult

\* C16: a start request issued while the store reports zero regions is
\* rejected before any task is spawned and leaves the manager as it was: the
\* lifecycle lock, the task and every run (an existing run keeps running),
\* the connection set with its heartbeats and watchdogs, the counters and the
\* latest payload are unchanged, and so is the store.
C16_RejectedStart ==
    [][\A k \in CallIds, req \in Requests :
          (regions = {} /\ Invoke(k, "start", req)) =>
              /\ calls'[k].pc = "rejected"
              /\ UNCHANGED <<m, lock, runs, nruns, conns, wd, db, hist>>]_vars

C16_Witness ==
    \E k \in CallIds, r \in RunIds :
        /\ regions = {}
        /\ calls[k].pc = "rejected"
        /\ m.task = r
        /\ Live(r)
        /\ runs[r].step_index = 1
        /\ m.clients # {}
        /\ m.latest_payload = [run |-> r, iteration |-> 1]

\* The step in which a reset() call returns
ResetReturns(k) ==
    /\ calls[k].pc # "done"
    /\ calls'[k].pc = "done"
    /\ calls[k].op = "reset" \/ Invoke(k, "reset", NoRequest)

\* C17: reset() stops the active run and then zeroes the store with nothing
\* in between: in the step in which a reset() call returns no run commits a
\* step, and after it no run is active, the lifecycle lock has been passed
\* on, and the store holds no world-state totals, no capacities, no
\* telemetry, no region statistics and no revenue or cost of any region.
C17_ResetZeroes ==
    [][\A k \in CallIds :
          ResetReturns(k) =>
              /\ m'.task = NoRun
              /\ \A r \in RunIds : runs'[r].pc \in {"absent", "done"}
              /\ lock'.holder # k
              /\ hist'.commits = hist.commits
              /\ \A t \in StepTables : db'[t] = <<>>]_vars

C17_Witness ==
    \E r \in RunIds :
        /\ hist.commits[r] = 2
        /\ runs[r].outcome = "cancelled"
        /\ r \in hist.retired
        /\ m.task = NoRun
        /\ \A t \in StepTables : db[t] = <<>>
        /\ \E k \in CallIds : calls[k].pc = "granted" /\ calls[k].op = "start"

\* The last committed step of the economy, when there is one
Stepped == econ.last.request # NoEconRequest

Profit(draws) ==
    (draws[HQ].revenue_cents - draws[HQ].cost_cents)
    + (draws[Other].revenue_cents - draws[Other].cost_cents)

\* C18: in every step, with available_capital = max(prior_capital +
\* max(total_profit, 0), 0) and spend_budget = floor(available_capital *
\* spend_ratio), new_gpus = min(floor(spend_budget / gpu_cost),
\* floor(available_capital / gpu_cost)); new_gpus is never negative and never
\* exceeds floor(available_capital / gpu_cost), capex_spent = new_gpus *
\* gpu_cost, and available_capital 1,000,000 with spend_ratio 0.25 and
\* gpu_cost 40,000 gives new_gpus 6 and capex 240,000.
C18_Expansion ==
    Stepped =>
        LET L == econ.last
            gpu_cost == L.request.gpu_cost
            available == Max(L.prior.capital_cents + Max(Profit(L.draws), 0), 0)
            budget == (available * L.request.quarters) \div RatioDenominator
        IN /\ L.new_gpus = Min(budget \div gpu_cost, available \div gpu_cost)
           /\ L.new_gpus >= 0
           /\ L.new_gpus <= available \div gpu_cost
           /\ L.spent_capex = L.new_gpus * gpu_cost
           /\ (available = 1000000 /\ L.request.quarters = 1 /\ gpu_cost = 40000) =>
                (L.new_gpus = 6 /\ L.spent_capex = 240000)

C18_Witness ==
    /\ Stepped
    /\ econ.last.prior.capital_cents = 1000000
    /\ Profit(econ.last.draws) < 0
    /\ econ.last.request = [quarters |-> 1, gpu_cost |-> 40000]
    /\ econ.last.new_gpus = 6
    /\ econ.last.spent_capex = 240000

\* C19: a committed step leaves the world state capital = prior_capital +
\* total_profit - capex_spent, total_revenue = prior + step revenue,
\* total_cost = prior + step cost, total_spent = prior + capex_spent, with
\* total_profit the sum over the regions of revenue - cost and the prior
\* values those the store held when the step began; and the values a running
\* task will use as prior for its next step are those the store holds.
C19_WorldUpdate ==
    /\ Stepped =>
         LET L == econ.last
             revenue == L.draws[HQ].revenue_cents + L.draws[Other].revenue_cents
             cost == L.draws[HQ].cost_cents + L.draws[Other].cost_cents
         IN /\ econ.world.capital_cents =
                 L.prior.capital_cents + Profit(L.draws) - L.spent_capex
            /\ econ.world.total_revenue_cents = L.prior.total_revenue_cents + revenue
            /\ econ.world.total_cost_cents = L.prior.total_cost_cents + cost
            /\ econ.world.total_spent_cents = L.prior.total_spent_cents + L.spent_capex
    /\ econ.running => econ.state = econ.world

C19_Witness ==
    /\ Stepped
    /\ econ.running
    /\ econ.steps = 2
    /\ econ.last.prior.total_spent_cents > 0
    /\ econ.last.spent_capex > 0
    /\ Profit(econ.last.draws) < 0

\* C20: a step adds the GPUs it buys to the expansion bucket only: the HQ
\* region's capacity is what it was when the step began (the default 0 when
\* it had no row) plus new_gpus, and the other region's capacity is what it
\* was (its default when it had no row).
C20_ExpansionBucketOnly ==
    Stepped =>
        LET L == econ.last
            before(g) == IF L.capacities[g] = NoCapacity
                         THEN (IF g = HQ THEN HQ_BASE_CAPACITY ELSE BASE_REGION_CAPACITY)
                         ELSE L.capacities[g]
        IN /\ econ.capacity[HQ] = before(HQ) + L.new_gpus
           /\ econ.capacity[Other] = before(Other)

C20_Witness ==
    /\ Stepped
    /\ econ.last.new_gpus > 0
    /\ econ.last.capacities[HQ] > 0
    /\ econ.capacity[HQ] > econ.last.capacities[HQ]
    /\ econ.capacity[Other] = BASE_REGION_CAPACITY

----------------------------------------------------------------------------
\* The length of a run.

\* The request carries a duration that bounds the run.
Bounded(req) == ~req.continuous /\ req.duration_minutes # NoDuration

\* ceil(d / step_hours): the least number of steps that cover the duration
StepsToCover(req) ==
    CHOOSE n \in 1..req.duration_minutes :
        /\ n * req.step_minutes >= req.duration_minutes
        /\ (n - 1) * req.step_minutes < req.duration_minutes

\* The run task returns from _run_simulation without having been cancelled
\* and without an exception.
EndsByItself(r) ==
    runs[r].pc # "done" /\ runs'[r].pc = "done" /\ runs'[r].outcome = "completed"

\* C21: a run started with continuous = false and duration_hours = d that is
\* neither cancelled nor hit by a store failure commits and broadcasts exactly
\* ceil(d / step_hours) steps and then terminates on its own: while it lives
\* it has completed fewer steps than that, and when it returns it has
\* committed and broadcast exactly that many.  A run with continuous = true
\* never terminates on its own.
C21_RunLength ==
    /\ [](\A r \in RunIds :
            (runs[r].pc \notin {"absent", "done"} /\ Bounded(runs[r].request)) =>
                /\ runs[r].step_index < StepsToCover(runs[r].request)
                /\ hist.commits[r] \in {runs[r].step_index, runs[r].step_index + 1})
    /\ [][\A r \in RunIds :
            EndsByItself(r) =>
                /\ ~runs[r].request.continuous
                /\ Bounded(runs[r].request)
                /\ hist'.commits[r] = StepsToCover(runs[r].request)
                /\ runs'[r].step_index = StepsToCover(runs[r].request)
                /\ m'.messages_sent = StepsToCover(runs[r].request)]_vars

\* A run of three steps of 20 minutes has covered its hour and returned.
C21_Witness ==
    \E r \in RunIds :
        /\ runs[r].pc = "done"
        /\ runs[r].outcome = "completed"
        /\ m.current_request =
              [continuous |-> FALSE, step_minutes |-> 20, duration_minutes |-> 60]
        /\ hist.commits[r] = 3
        /\ m.messages_sent = 3

\* C22: duration_hours is required when continuous = false: a start request
\* with continuous = false and no duration_hours is rejected as an invalid
\* configuration (the call is rejected as it is made, before it takes the
\* lifecycle lock), and no run is ever started for such a request.
C22_DurationRequired ==
    /\ [][\A k \in CallIds, req \in Requests :
            (~req.continuous /\ req.duration_minutes = NoDuration
                /\ Invoke(k, "start", req)) =>
                    /\ calls'[k].pc = "rejected"
                    /\ UNCHANGED <<m, lock, runs, nruns>>]_vars
    /\ [](\A r \in RunIds :
            runs[r].pc \notin {"absent", "done"} =>
                (runs[r].request.continuous
                    \/ runs[r].request.duration_minutes # NoDuration))

----------------------------------------------------------------------------
\* One region's turn of an iteration.

\* A region has had its turn
Iterated == iter.region # NoRegion

\* C23: for every region in every step, the utilization used for used_gpus,
\* revenue and cost lies in [0.05, 0.98] whatever value the random draw
\* produces, and consequently 0 <= used_gpus <= capacity and
\* free_gpus = capacity - used_gpus >= 0.
C23_UtilizationClamped ==
    Iterated =>
        /\ 50 <= iter.utilization /\ iter.utilization <= 980
        /\ (50 <= iter.raw /\ iter.raw <= 980) => iter.utilization = iter.raw
        /\ 0 <= iter.used_gpus /\ iter.used_gpus <= iter.capacity
        /\ iter.free_gpus = iter.capacity - iter.used_gpus
        /\ iter.free_gpus >= 0

\* A draw of 1.5 for a region of 50 GPUs: 49 are in use and one is free.
C23_Witness ==
    /\ Iterated
    /\ iter.raw = 1500
    /\ iter.capacity = 50
    /\ iter.utilization = 980
    /\ iter.used_gpus = 49
    /\ iter.free_gpus = 1

\* C24: the region status written by a step is a function of the step's
\* utilization percent only: >= 90 gives congested, otherwise >= 70 gives
\* busy, otherwise <= 25 gives idle, otherwise healthy (92 congested, 75 busy,
\* 20 idle, 50 healthy).
C24_StatusClassification ==
    Iterated =>
        LET p == iter.util_percent
        IN /\ (p >= 90) => iter.status = "congested"
           /\ (p < 90 /\ p >= 70) => iter.status = "busy"
           /\ (p < 70 /\ p <= 25) => iter.status = "idle"
           /\ (p < 70 /\ p > 25) => iter.status = "healthy"
           /\ p = 92 => iter.status = "congested"
           /\ p = 75 => iter.status = "busy"
           /\ p = 20 => iter.status = "idle"
           /\ p = 50 => iter.status = "healthy"
           /\ 10 * p - 5 <= iter.utilization /\ iter.utilization <= 10 * p + 5

\* A utilization of exactly 90 percent is congested.
C24_Witness ==
    /\ Iterated
    /\ iter.util_percent = 90
    /\ iter.status = "congested"
    /\ iter.utilization = 900

----------------------------------------------------------------------------
\* What GET /simulate/telemetry returns.

\* The route has been called
Queried == tele.query.limit # NoLimit

\* The instant a bucket's "timestamp" denotes
KeyTime(key) ==
    [minute |-> key[1], microsecond |-> IF Len(key) = 2 THEN key[2] ELSE 0]

\* C25: for every limit and every stored telemetry history, telemetry(limit)
\* returns at most limit buckets, in strictly increasing timestamp order, and
\* every bucket's totals satisfy profit_cents == revenue_cents - cost_cents.
C25_TelemetryBuckets ==
    Queried =>
        LET points == tele.query.points
        IN /\ Len(points) <= tele.query.limit
           /\ \A i \in 1..Len(points) :
                /\ points[i].totals.profit_cents =
                      points[i].totals.revenue_cents - points[i].totals.cost_cents
                /\ \E row \in tele.query.stored : row.ts = KeyTime(points[i].timestamp)
           /\ \A i \in 1..Len(points), j \in 1..Len(points) :
                i < j => ts_less(KeyTime(points[i].timestamp), KeyTime(points[j].timestamp))

\* Two buckets are returned of a history of four rows, one of them at a loss.
C25_Witness ==
    /\ Queried
    /\ Cardinality(tele.query.stored) = 4
    /\ tele.query.limit = 2
    /\ Len(tele.query.points) = 2
    /\ \E i \in 1..2 : tele.query.points[i].totals.profit_cents < 0
    /\ \E i \in 1..2 : Len(tele.query.points[i].timestamp) = 2

\* The stored rows that share a bucket's timestamp
RowsAt(stored, key) == {row \in stored : isoformat(row.ts) = key}

RECURSIVE SumRevenue(_)
SumRevenue(rows) ==
    IF rows = {} THEN 0
    ELSE LET row == CHOOSE x \in rows : TRUE
         IN row.revenue_cents + SumRevenue(rows \ {row})

RECURSIVE SumCost(_)
SumCost(rows) ==
    IF rows = {} THEN 0
    ELSE LET row == CHOOSE x \in rows : TRUE
         IN row.cost_cents + SumCost(rows \ {row})

RECURSIVE SumUtilization(_)
SumUtilization(rows) ==
    IF rows = {} THEN 0
    ELSE LET row == CHOOSE x \in rows : TRUE
         IN row.utilization + SumUtilization(rows \ {row})

\* C26: every bucket returned by telemetry(limit) contains all stored
\* telemetry rows that share the bucket's timestamp, so the bucket's revenue,
\* cost and avg_utilization totals cover every region recorded at that
\* timestamp.
C26_BucketsComplete ==
    Queried =>
        \A i \in 1..Len(tele.query.points) :
            LET bucket == tele.query.points[i]
                rows == RowsAt(tele.query.stored, bucket.timestamp)
            IN /\ {bucket.regions[n].code : n \in 1..Len(bucket.regions)} =
                      {row.region : row \in rows}
               /\ Len(bucket.regions) = Cardinality(rows)
               /\ bucket.totals.revenue_cents = SumRevenue(rows)
               /\ bucket.totals.cost_cents = SumCost(rows)
               /\ 2 * Cardinality(rows) * bucket.totals.avg_utilization
                      >= 20 * SumUtilization(rows) - Cardinality(rows)
               /\ 2 * Cardinality(rows) * bucket.totals.avg_utilization
                      <= 20 * SumUtilization(rows) + Cardinality(rows)

----------------------------------------------------------------------------
\* C27: all accesses to the state-lock-guarded data are made under the state
\* lock, so status() returns an atomic snapshot: no status() result combines
\* values from before and after a concurrent broadcast() or start().  The
\* result a pending status() call returns is the one built from the values
\* the manager had when the snapshot was taken: its current_iteration is the
\* snapshot's, and is the iteration of the latest payload it reports whenever
\* it reports one.
C27_StatusAtomic ==
    st.pc = "snapshot" =>
        /\ StatusResult =
              status_result(st.snap, st.running, st.at, st.snap.current_iteration, now)
        /\ StatusResult.latest_payload # NoPayload =>
              StatusResult.current_iteration = StatusResult.latest_payload.iteration

----------------------------------------------------------------------------
\* The watchdogs.

\* A step of the watchdog task of connection c
WatchdogStep(c) == WatchdogWake(c) \/ WatchdogCloseDone(c) \/ WatchdogCancelled(c)

\* C28: a connection's watchdog terminates once the connection leaves the
\* registry by any path (listener exit, send failure, close_all, its own
\* stale timeout): from the removal on the watchdog task has returned or has
\* been cancelled, the one step a cancelled watchdog still takes is its exit,
\* which neither closes the connection nor changes the registry or the
\* disconnect counter, and no watchdog is registered for a connection that is
\* not registered.
C28_WatchdogEndsWithConnection ==
    /\ [](\A c \in Removed(Cur) :
            /\ wd[c].pc = "done" \/ wd[c].cancel
            /\ c \notin m.watchdogs)
    /\ [](m.watchdogs \subseteq m.clients)
    /\ [][\A c \in Removed(Cur) :
            WatchdogStep(c) =>
                /\ wd'[c].pc = "done"
                /\ m' = m
                /\ conns' = conns]_vars

\* A connection was removed at its listener's exit after the peer had gone,
\* and its cancelled watchdog has exited: one disconnect is counted.
C28_Witness ==
    \E c \in ConnIds :
        /\ c \in Removed(Cur)
        /\ conns[c].close_reason = "peer"
        /\ wd[c].pc = "done"
        /\ ~wd[c].cancel
        /\ m.disconnects = 1

\* C29: a watchdog force-closes its connection only when, at one of its
\* periodic checks, the connection's heartbeat age exceeds the 30s stale
\* timeout: whenever a connection is closed as stale, the step is a check of
\* its own watchdog, made when its sleep is over, and the last refresh of the
\* connection's heartbeat is more than 30s old, so a connection whose
\* heartbeat is refreshed at least once every 30s is never closed by its
\* watchdog.
C29_ClosesOnlyStale ==
    [][\A c \in ConnIds :
          ( \/ conns'[c].close_reason = STALE_CONNECTION
                  /\ conns[c].close_reason # STALE_CONNECTION
            \/ WatchdogStep(c) /\ conns'[c] # conns[c] ) =>
              /\ WatchdogWake(c)
              /\ wd[c].pc = "sleep" /\ now >= wd[c].wake
              /\ c \in m.clients
              /\ now - m.last_heartbeat[c] > StaleTimeout
              /\ conns[c].state = "open"]_vars

\* A connection whose heartbeat was refreshed after it registered is closed
\* as stale 35 seconds after the refresh.
C29_Witness ==
    \E c \in ConnIds :
        /\ conns[c].close_reason = STALE_CONNECTION
        /\ wd[c].pc = "closing"
        /\ c \in m.clients
        /\ m.last_heartbeat[c] > 0
        /\ now - m.last_heartbeat[c] = StaleTimeout + WatchdogInterval

\* C30: the disconnect counter is incremented exactly once per connection
\* removed from the registry, however many cleanup paths run for that
\* connection: every step adds to the counter the number of connections the
\* step removes, except the step in which start() resets it to zero, so that
\* between two start() calls the counter equals the number of connections
\* removed.  A removed connection is never registered again.
C30_OneDisconnectPerRemoval ==
    [][/\ Removed(Cur) \subseteq Removed(Cur)'
       /\ IF nruns' # nruns
          THEN m'.disconnects = 0
          ELSE m'.disconnects =
                  m.disconnects + Cardinality(Removed(Cur)' \ Removed(Cur))]_vars

\* A connection was removed after a failed send; its listener has exited and
\* its watchdog was cancelled and has exited: one disconnect is counted.
C30_Witness ==
    \E c \in ConnIds :
        /\ c \in Removed(Cur)
        /\ conns[c].close_reason = SEND_FAILURE
        /\ conns[c].pc = "exited"
        /\ wd[c].pc = "done"
        /\ m.disconnects = 1

----------------------------------------------------------------------------
\* What a subscriber receives.

\* Payload p comes before payload q: an earlier run, or an earlier iteration
\* of the same run
PayloadBefore(p, q) ==
    \/ p.run < q.run
    \/ p.run = q.run /\ p.iteration < q.iteration

\* A broadcast of run r returns in this step (step_index is incremented when
\* broadcast() has returned)
BroadcastReturns(r) == runs'[r].step_index = runs[r].step_index + 1

\* C31: for any interleaving of register and broadcast, a connection that
\* stays registered receives every payload broadcast after its registration
\* exactly once and in increasing iteration order, and the catch-up payload
\* it got at registration is never delivered to it a second time by a
\* broadcast: a payload a broadcast delivers to a connection comes after
\* whatever the connection received last (its catch-up payload included), and
\* when a broadcast returns every connection of its snapshot that is still
\* registered has received its payload.
C31_EveryPayloadOnce ==
    [][/\ \A c \in ConnIds :
            (hist'.received[c] # hist.received[c] /\ conns[c].pc # "catchup") =>
                /\ PayloadBefore(hist.received[c], hist'.received[c])
                /\ \E r \in RunIds :
                      /\ TransportSent(r)
                      /\ runs[r].cur = c
                      /\ c \in runs[r].bc.snapshot
                      /\ hist'.received[c] = runs[r].payload
       /\ \A r \in RunIds :
            BroadcastReturns(r) =>
                /\ runs'[r].bc.complete
                /\ \A c \in runs'[r].bc.snapshot \cap m'.clients :
                      hist'.received[c] = runs'[r].payload]_vars

\* A connection got iteration 1 as its catch-up payload and then iteration 2
\* from the broadcast, before its listener was even resumed.
C31_Witness ==
    \E c \in ConnIds, r \in RunIds :
        /\ conns[c].pc = "catchup_sent"
        /\ conns[c].catchup = [run |-> r, iteration |-> 1]
        /\ hist.received[c] = [run |-> r, iteration |-> 2]
        /\ c \in m.clients

----------------------------------------------------------------------------
\* The stop sequence.

\* The stop sequence of call k finishes in this step: _stop_locked has
\* returned and the call leaves "async with self._lock"
StopSequenceFinishes(k) == calls[k].pc \notin {"done", "rejected"} /\ calls'[k].pc = "done"

\* C32: when the stop sequence finishes (in stop() or inside start()), the
\* active connection set is empty, even if new connections register while the
\* stop sequence is waiting for the run to exit or is closing connections one
\* by one.
C32_StopLeavesNoConnection ==
    [][\A k \in CallIds : StopSequenceFinishes(k) => m'.clients = {}]_vars

\* The connections registered before call k was invoked
RegisteredBefore(k) == IF calls[k].pc = "idle" THEN 1..nconns ELSE 1..hist.invoked[k]

\* start() call k creates the task of its run in this step
StartCreatesTask(k) ==
    /\ nruns' # nruns
    /\ calls[k].pc \notin {"done", "rejected"}
    /\ calls'[k].pc = "done"
    /\ calls[k].op = "start" \/ calls[k].pc = "idle"

C34_IdleHasNoConfiguration ==
    (st.pc = "snapshot" /\ ~StatusResult.running) =>
        StatusResult.configuration = NoRequest

----------------------------------------------------------------------------
\* The counters of broadcasts.

\* A run enters the state-lock section of broadcast() in this step
BroadcastLocked(r) == runs'[r].payload # runs[r].payload

\* C35: in every reachable state messages_sent equals current_iteration: both
\* are 0 after start(), each broadcast raises both by exactly 1 in the same
\* state-lock critical section, payload iteration numbers within a run are
\* 1, 2, 3, ... with no gap or repeat, and neither counter changes when no
\* broadcast happens.
C35_CountersAgree ==
    /\ [](m.messages_sent = m.current_iteration)
    /\ [][IF nruns' # nruns
          THEN m'.messages_sent = 0 /\ m'.current_iteration = 0
          ELSE IF \E r \in RunIds : BroadcastLocked(r)
          THEN \E r \in RunIds :
                  /\ BroadcastLocked(r)
                  /\ m.task = r
                  /\ m'.messages_sent = m.messages_sent + 1
                  /\ m'.current_iteration = m.current_iteration + 1
                  /\ runs'[r].payload = [run |-> r, iteration |-> runs[r].step_index + 1]
                  /\ runs'[r].payload.iteration = m'.current_iteration
                  /\ m'.latest_payload = runs'[r].payload
          ELSE /\ m'.messages_sent = m.messages_sent
               /\ m'.current_iteration = m.current_iteration]_vars

\* The second run has broadcast once after a first run of two broadcasts:
\* both counters are 1.
C35_Witness ==
    /\ nruns = 2
    /\ m.task = 2
    /\ runs[1].step_index = 2
    /\ runs[2].payload = [run |-> 2, iteration |-> 1]
    /\ m.messages_sent = 1
    /\ m.current_iteration = 1

----------------------------------------------------------------------------
\* The books of the durable world state.

\* The capacity a task reads for the expansion bucket
BucketCapacity(e) == capacities_loaded(e.capacity)[HQ]

\* C36: from a reset (all-zero) world state, after any number of committed
\* steps across any number of runs the durable world state has capital_cents =
\* total_revenue_cents - total_cost_cents - total_spent_cents, and the three
\* totals and the capacity of the expansion bucket never decrease between
\* resets.
C36_BooksBalance ==
    /\ [](econ.world.capital_cents =
            econ.world.total_revenue_cents - econ.world.total_cost_cents
                - econ.world.total_spent_cents)
    /\ [][EconReset \/
          /\ econ'.world.total_revenue_cents >= econ.world.total_revenue_cents
          /\ econ'.world.total_cost_cents >= econ.world.total_cost_cents
          /\ econ'.world.total_spent_cents >= econ.world.total_spent_cents
          /\ BucketCapacity(econ') >= BucketCapacity(econ)]_vars

\* Two steps of two runs from the zero world: the first bought one GPU with
\* the whole budget, the second ran at a quarter and paid for electricity.
C36_Witness ==
    /\ econ.steps = 2
    /\ econ.last.request = [quarters |-> 1, gpu_cost |-> 40000]
    /\ econ.last.prior.total_spent_cents = 40000
    /\ econ.last.prior.total_revenue_cents = 60000
    /\ econ.world.total_cost_cents > 0
    /\ econ.world.total_revenue_cents > 60000
    /\ BucketCapacity(econ) = 1

============================================================================
